---- MODULE Spec2Model ----
(***************************************************************************)
(* Rule-based transaction classification engine of commerce_erp:           *)
(* RuleEngineService (rule cache, matcher, resolver, classifier) on top of *)
(* RuleDataService (the rule store).                                       *)
(*                                                                         *)
(* Strings that the matcher inspects (descriptions, keywords) are          *)
(* sequences of one-character strings; identifiers (company, category)     *)
(* are plain strings.  A nullable number is <<>> (null) or <<n>>.          *)
(***************************************************************************)
EXTENDS Integers, Sequences, FiniteSets, TLC

(***************************************************************************)
(* Bounds of the model.                                                    *)
(***************************************************************************)
MaxDescLen == 3
MaxKeywords == 2
MaxMatched == 3
MaxTicks == 2
MaxUploads == 2

(***************************************************************************)
(* Program constants.                                                      *)
(***************************************************************************)
CACHE_TTL == 5 * 60 * 1000

TransactionType == {"DEPOSIT", "WITHDRAWAL", "ALL"}

KeywordType == {"INCLUDE", "EXCLUDE"}

Null == << >>

IsSet(x) == x # Null

(***************************************************************************)
(* JavaScript string primitives used by the matcher.                       *)
(***************************************************************************)
Chars == {"a", "b", "A", " "}

toLowerCase(s) ==
  [i \in 1..Len(s) |-> IF s[i] = "A" THEN "a" ELSE IF s[i] = "B" THEN "b" ELSE s[i]]

IsSpace(c) == c = " "

RECURSIVE trimStart(_)
trimStart(s) ==
  IF s # << >> /\ IsSpace(Head(s)) THEN trimStart(Tail(s)) ELSE s

RECURSIVE trimEnd(_)
trimEnd(s) ==
  IF s # << >> /\ IsSpace(s[Len(s)]) THEN trimEnd(SubSeq(s, 1, Len(s) - 1)) ELSE s

trim(s) == trimEnd(trimStart(s))

\* description.split(/\s+/): the pieces between maximal runs of whitespace
RECURSIVE splitFrom(_, _, _, _)
splitFrom(s, i, cur, prevSpace) ==
  IF i > Len(s) THEN << cur >>
  ELSE IF IsSpace(s[i])
       THEN IF prevSpace THEN splitFrom(s, i + 1, cur, TRUE)
            ELSE << cur >> \o splitFrom(s, i + 1, << >>, TRUE)
       ELSE splitFrom(s, i + 1, Append(cur, s[i]), FALSE)

splitWhitespace(s) == splitFrom(s, 1, << >>, FALSE)

\* description.includes(keyword)
includes(s, k) ==
  \E i \in 0..(Len(s) - Len(k)) : SubSeq(s, i + 1, i + Len(k)) = k

SeqsUpTo(S, n) == UNION {[1..k -> S] : k \in 0..n}

Max(a, b) == IF a >= b THEN a ELSE b

(***************************************************************************)
(* Matcher.                                                                *)
(***************************************************************************)
checkTransactionType_WithdrawalIgnored(transactionData, ruleTransactionType) ==
  IF ruleTransactionType = "ALL" THEN TRUE
  ELSE LET isDeposit == transactionData.depositAmount > 0
           isWithdrawal == transactionData.withdrawalAmount > 0
       IN  CASE ruleTransactionType = "DEPOSIT" -> isDeposit
             [] ruleTransactionType = "WITHDRAWAL" -> isWithdrawal
             [] OTHER -> TRUE

checkTransactionType(transactionData, ruleTransactionType) ==
  IF ruleTransactionType = "ALL" THEN TRUE
  ELSE LET isDeposit == transactionData.depositAmount > 0
           isWithdrawal == transactionData.withdrawalAmount > 0
       IN  CASE ruleTransactionType = "DEPOSIT" -> isDeposit /\ ~isWithdrawal
             [] ruleTransactionType = "WITHDRAWAL" -> isWithdrawal /\ ~isDeposit
             [] OTHER -> TRUE

checkAmountRange_ExclusiveBounds(transactionData, rule) ==
  LET transactionAmount ==
        Max(transactionData.depositAmount, transactionData.withdrawalAmount)
  IN  IF IsSet(rule.min_amount) /\ transactionAmount <= rule.min_amount[1]
      THEN FALSE
      ELSE IF IsSet(rule.max_amount) /\ transactionAmount >= rule.max_amount[1]
           THEN FALSE
           ELSE TRUE

checkAmountRange(transactionData, rule) ==
  LET transactionAmount ==
        Max(transactionData.depositAmount, transactionData.withdrawalAmount)
  IN  IF IsSet(rule.min_amount) /\ transactionAmount < rule.min_amount[1]
      THEN FALSE
      ELSE IF IsSet(rule.max_amount) /\ transactionAmount > rule.max_amount[1]
           THEN FALSE
           ELSE TRUE

isKeywordMatch(description, keyword) ==
  LET words == splitWhitespace(description)
  IN  IF \E i \in 1..Len(words) : words[i] = keyword
      THEN TRUE
      ELSE includes(description, keyword)

IsInclude(k) == k.keyword_type = "INCLUDE"

IsExclude(k) == k.keyword_type = "EXCLUDE"

\* one of the for-loops of checkKeywordMatching: does some keyword of kws,
\* lower-cased and trimmed, match the description
RECURSIVE someKeywordMatches(_, _)
someKeywordMatches(description, kws) ==
  IF kws = << >> THEN FALSE
  ELSE IF isKeywordMatch(description, trim(toLowerCase(Head(kws).keyword)))
       THEN TRUE
       ELSE someKeywordMatches(description, Tail(kws))

checkKeywordMatching_IncludeFirst(transactionData, rule) ==
  IF Len(rule.keywords) = 0 THEN TRUE
  ELSE LET description == trim(toLowerCase(transactionData.description))
           includeKeywords == SelectSeq(rule.keywords, IsInclude)
           excludeKeywords == SelectSeq(rule.keywords, IsExclude)
       IN  IF someKeywordMatches(description, includeKeywords) THEN TRUE
           ELSE IF someKeywordMatches(description, excludeKeywords) THEN FALSE
           ELSE Len(includeKeywords) = 0

checkKeywordMatching(transactionData, rule) ==
  IF Len(rule.keywords) = 0 THEN TRUE
  ELSE LET description == trim(toLowerCase(transactionData.description))
           includeKeywords == SelectSeq(rule.keywords, IsInclude)
           excludeKeywords == SelectSeq(rule.keywords, IsExclude)
       IN  IF someKeywordMatches(description, excludeKeywords) THEN FALSE
           ELSE IF Len(includeKeywords) = 0 THEN TRUE
           ELSE IF someKeywordMatches(description, includeKeywords) THEN TRUE
           ELSE FALSE

evaluateRule(transactionData, rule) ==
  IF ~checkTransactionType(transactionData, rule.transaction_type) THEN FALSE
  ELSE IF ~checkAmountRange(transactionData, rule) THEN FALSE
  ELSE IF ~checkKeywordMatching(transactionData, rule) THEN FALSE
  ELSE TRUE

findMatchingRules(transactionData, rules) ==
  LET Matches(rule) == evaluateRule(transactionData, rule)
  IN  SelectSeq(rules, Matches)

(***************************************************************************)
(* Resolver.                                                               *)
(***************************************************************************)
\* Array.prototype.toSorted with comparator a.priority - b.priority: a
\* stable sort, written as a stable insertion sort
RECURSIVE insertByPriority(_, _)
insertByPriority(sorted, r) ==
  IF sorted = << >> THEN << r >>
  ELSE IF r.priority - Head(sorted).priority < 0
       THEN << r >> \o sorted
       ELSE << Head(sorted) >> \o insertByPriority(Tail(sorted), r)

RECURSIVE toSortedByPriority(_)
toSortedByPriority(rules) ==
  IF rules = << >> THEN << >>
  ELSE insertByPriority(toSortedByPriority(SubSeq(rules, 1, Len(rules) - 1)),
                        rules[Len(rules)])

selectBestRule_FirstMatched(matchedRules) == matchedRules[1]

selectBestRule(matchedRules) ==
  LET sortedRules == toSortedByPriority(matchedRules)
  IN  sortedRules[1]

(***************************************************************************)
(* State.                                                                  *)
(***************************************************************************)
VARIABLES
  now,              \* Date.now()
  ticks,            \* number of clock advances so far
  rulesTable,       \* classification_rules rows with their keywords, by rule_id
  categoriesTable,  \* categories rows, keyed by category_id
  nextRuleId,       \* auto-increment of classification_rules.rule_id
  uploads,          \* number of rule files committed so far
  rulesCache,       \* RuleEngineService.rulesCache
  cacheExpiry,      \* RuleEngineService.cacheExpiry
  calls,            \* per caller: the classifyTransaction call in flight
  last,             \* history: what the last step did
  dropped,          \* history: per key, how it was dropped since its last lookup
  rulesChanged,     \* history: tenants whose rules changed, not looked up since
  windowCalls,      \* history: store calls within the window of the live entry
  mPhase,           \* matcher harness: "idle", "evaluate", "resolve" or "done"
  mTx,              \* matcher harness: the transaction
  mRules,           \* matcher harness: the rule list
  mOut,             \* matcher harness: the results
  batch,            \* the classifyTransactionsBatch call in flight
  verdicts,         \* history: per context, the verdict of its first completed run
  pipe,             \* the classifyAndSaveTransactions / reclassify call in flight
  transactionsTable,\* transactions rows, in the order they were inserted
  saveLog,          \* history: the entity lists handed to transactionRepository.save
  parked            \* a second call of the service, suspended at an await

engineVars ==
  << now, ticks, rulesTable, categoriesTable, nextRuleId, uploads, rulesCache,
     cacheExpiry, calls, last, dropped, rulesChanged, windowCalls >>

matcherVars == << mPhase, mTx, mRules, mOut >>

runnerVars == << batch, verdicts, pipe, transactionsTable, saveLog, parked >>

vars == << engineVars, matcherVars, runnerVars >>

(***************************************************************************)
(* Inputs of the model.                                                    *)
(***************************************************************************)
Callers == {1}

Tenants == {"com_1", "all_companies"}

ADMIN_ALL_COMPANIES == "ADMIN_ALL_COMPANIES"

UserTypes == {"ADMIN", "BUSINESS_OWNER"}

TickSteps == {1, CACHE_TTL - 1}

Tx(description, depositAmount, withdrawalAmount) ==
  [description |-> description, depositAmount |-> depositAmount,
   withdrawalAmount |-> withdrawalAmount]

TxSet == { Tx(<< "a" >>, 0, 5500), Tx(<< "b" >>, 0, 5500) }

Contexts ==
  [companyId : Tenants, userType : {"BUSINESS_OWNER"}, transactionData : TxSet]
  \cup
  [companyId : {ADMIN_ALL_COMPANIES}, userType : {"ADMIN"}, transactionData : TxSet]

CategoryRule(id, name, kws, excl, min, max, type, prio) ==
  [category_id |-> id, category_name |-> name, keywords |-> kws,
   exclude_keywords |-> excl, amount_range |-> [min |-> min, max |-> max],
   transaction_type |-> type, priority |-> prio]

FileFood ==
  [companies |-> <<
     [company_id |-> "com_1",
      categories |-> <<
        CategoryRule("cat_1", "food", << << "a" >> >>, << << "b" >> >>,
                     << 1000 >>, << 50000 >>, "WITHDRAWAL", << 1 >>),
        CategoryRule("cat_2", "etc", << << "a" >> >>, << >>,
                     << 0 >>, Null, "undefined", Null) >>] >>]

FileMisc ==
  [companies |-> <<
     [company_id |-> "com_1",
      categories |-> <<
        CategoryRule("cat_4", "misc", << << "b" >> >>, << >>,
                     Null, Null, "ALL", << 2 >>) >>],
     [company_id |-> "com_2",
      categories |-> <<
        CategoryRule("cat_3", "rent", << << "a" >> >>, << >>,
                     Null, Null, "ALL", << 2 >>) >>] >>]

RuleFiles == {FileFood, FileMisc}

(***************************************************************************)
(* Rule store (RuleDataService over the database).                         *)
(***************************************************************************)
EmptyMap == [k \in {} |-> 0]

MapSet(m, k, v) == [x \in DOMAIN m \cup {k} |-> IF x = k THEN v ELSE m[x]]

MapDelete(m, k) == [x \in DOMAIN m \ {k} |-> m[x]]

mapTransactionType(type) ==
  CASE type = "DEPOSIT" -> "DEPOSIT"
    [] type = "WITHDRAWAL" -> "WITHDRAWAL"
    [] OTHER -> "ALL"

\* amount_range?.min || null : a missing bound and the bound 0 both give null
OrNull(x) == IF IsSet(x) /\ x[1] # 0 THEN x ELSE Null

KeywordRows_AsGiven(texts, type) ==
  [i \in 1..Len(texts) |-> [keyword |-> texts[i], keyword_type |-> type]]

KeywordRows(texts, type) ==
  [i \in 1..Len(texts) |-> [keyword |-> trim(texts[i]), keyword_type |-> type]]

saveCategoryRules(db, companyId, categoryData) ==
  LET rule ==
        [rule_id |-> db.nextRuleId,
         company_id |-> companyId,
         category_id |-> categoryData.category_id,
         min_amount |-> OrNull(categoryData.amount_range.min),
         max_amount |-> OrNull(categoryData.amount_range.max),
         transaction_type |-> mapTransactionType(categoryData.transaction_type),
         priority |-> IF IsSet(OrNull(categoryData.priority))
                      THEN categoryData.priority[1] ELSE 1,
         is_active |-> TRUE,
         keywords |-> KeywordRows(categoryData.keywords, "INCLUDE")
                      \o KeywordRows(categoryData.exclude_keywords, "EXCLUDE")]
  IN  [rules |-> Append(db.rules, rule),
       categories |-> MapSet(db.categories, categoryData.category_id,
                             [category_id |-> categoryData.category_id,
                              company_id |-> companyId,
                              category_name |-> categoryData.category_name]),
       nextRuleId |-> db.nextRuleId + 1]

deleteExistingRulesSimple(db, companyId) ==
  LET Other(r) == r.company_id # companyId
  IN  [rules |-> SelectSeq(db.rules, Other),
       categories |-> [k \in {x \in DOMAIN db.categories :
                                db.categories[x].company_id # companyId}
                       |-> db.categories[k]],
       nextRuleId |-> db.nextRuleId]

RECURSIVE saveCategories(_, _, _)
saveCategories(db, companyId, categories) ==
  IF categories = << >> THEN db
  ELSE saveCategories(saveCategoryRules(db, companyId, Head(categories)),
                      companyId, Tail(categories))

saveCompanyRules(db, companyData) ==
  saveCategories(deleteExistingRulesSimple(db, companyData.company_id),
                 companyData.company_id, companyData.categories)

RECURSIVE saveCompanies(_, _)
saveCompanies(db, companies) ==
  IF companies = << >> THEN db
  ELSE saveCompanies(saveCompanyRules(db, Head(companies)), Tail(companies))

saveRulesToDatabase(db, rulesData) == saveCompanies(db, rulesData.companies)

FileCompanies(rulesData) ==
  {rulesData.companies[i].company_id : i \in 1..Len(rulesData.companies)}

\* relations: ['keywords', 'category']
WithCategory(db, r) ==
  [rule_id |-> r.rule_id, company_id |-> r.company_id,
   category_id |-> r.category_id, min_amount |-> r.min_amount,
   max_amount |-> r.max_amount, transaction_type |-> r.transaction_type,
   priority |-> r.priority, is_active |-> r.is_active, keywords |-> r.keywords,
   category |-> IF r.category_id \in DOMAIN db.categories
                THEN << db.categories[r.category_id] >> ELSE Null]

Range(s) == {s[i] : i \in 1..Len(s)}

\* order: { priority: 'ASC' } : every order of the rows that ascends in
\* priority; the order among rows of equal priority is the database's choice
PriorityOrders(rows) ==
  {s \in [1..Len(rows) -> Range(rows)] :
     /\ \A i, j \in 1..Len(rows) : i # j => s[i] # s[j]
     /\ \A i \in 1..(Len(rows) - 1) : s[i].priority <= s[i + 1].priority}

getRulesByCompany(db, companyId) ==
  LET Wanted(r) == r.company_id = companyId /\ r.is_active
      rows == SelectSeq(db.rules, Wanted)
  IN  PriorityOrders([i \in 1..Len(rows) |-> WithCategory(db, rows[i])])

getAllActiveRules(db) ==
  LET Wanted(r) == r.is_active
      rows == SelectSeq(db.rules, Wanted)
  IN  PriorityOrders([i \in 1..Len(rows) |-> WithCategory(db, rows[i])])

Database ==
  [rules |-> rulesTable, categories |-> categoriesTable, nextRuleId |-> nextRuleId]

(***************************************************************************)
(* Classifier.                                                             *)
(***************************************************************************)
getMatchedKeywords(transactionData, rule) ==
  IF Len(rule.keywords) = 0 THEN << >>
  ELSE LET description == toLowerCase(transactionData.description)
           includeKeywords == SelectSeq(rule.keywords, IsInclude)
           Appears(k) == includes(description, toLowerCase(k.keyword))
           matched == SelectSeq(includeKeywords, Appears)
       IN  [i \in 1..Len(matched) |-> matched[i].keyword]

ClassificationError ==
  [isClassified |-> FALSE, reason |-> "Classification error occurred"]

\* classifyTransaction from the point where the candidate rules are loaded
classifyWithRules_TenantOfRequest(context, rules) ==
  IF Len(rules) = 0
  THEN [isClassified |-> FALSE,
        reason |-> IF context.userType = "ADMIN"
                   THEN "No active rules found for any company"
                   ELSE "No active rules found for company"]
  ELSE LET matchedRules == findMatchingRules(context.transactionData, rules)
       IN  IF Len(matchedRules) = 0
           THEN [isClassified |-> FALSE, reason |-> "No matching rules found"]
           ELSE LET selectedRule == selectBestRule(matchedRules)
                IN  [isClassified |-> TRUE,
                     categoryId |-> selectedRule.category_id,
                     categoryName |-> IF IsSet(selectedRule.category)
                                      THEN selectedRule.category[1].category_name
                                      ELSE "undefined",
                     ruleId |-> selectedRule.rule_id,
                     matchedKeywords |->
                       getMatchedKeywords(context.transactionData, selectedRule),
                     reason |-> "Successfully classified",
                     actualCompanyId |-> context.companyId]

classifyWithRules(context, rules) ==
  IF Len(rules) = 0
  THEN [isClassified |-> FALSE,
        reason |-> IF context.userType = "ADMIN"
                   THEN "No active rules found for any company"
                   ELSE "No active rules found for company"]
  ELSE LET matchedRules == findMatchingRules(context.transactionData, rules)
       IN  IF Len(matchedRules) = 0
           THEN [isClassified |-> FALSE, reason |-> "No matching rules found"]
           ELSE LET selectedRule == selectBestRule(matchedRules)
                IN  [isClassified |-> TRUE,
                     categoryId |-> selectedRule.category_id,
                     categoryName |-> IF IsSet(selectedRule.category)
                                      THEN selectedRule.category[1].category_name
                                      ELSE "undefined",
                     ruleId |-> selectedRule.rule_id,
                     matchedKeywords |->
                       getMatchedKeywords(context.transactionData, selectedRule),
                     reason |-> "Successfully classified",
                     actualCompanyId |-> selectedRule.company_id]

\* a transaction record that slipped through without a description string
HasDescription(transactionData) == "description" \in DOMAIN transactionData

\* evaluateRule raises a TypeError: transactionData.description.toLowerCase()
\* is reached (stages 1 and 2 pass, the rule has keywords) and description is
\* undefined
evaluateRuleRaises(transactionData, rule) ==
  /\ ~HasDescription(transactionData)
  /\ checkTransactionType(transactionData, rule.transaction_type)
  /\ checkAmountRange(transactionData, rule)
  /\ Len(rule.keywords) > 0

findMatchingRulesRaises(transactionData, rules) ==
  \E i \in 1..Len(rules) : evaluateRuleRaises(transactionData, rules[i])

\* the try block of classifyTransaction after the rules are loaded, with its
\* catch
classifyCaught(context, rules) ==
  IF findMatchingRulesRaises(context.transactionData, rules)
  THEN ClassificationError
  ELSE classifyWithRules(context, rules)

\* one iteration of the loop of classifyTransactionsBatch, with its catch
classifyBatchEntry(transaction, rules) ==
  IF findMatchingRulesRaises(transaction, rules)
  THEN ClassificationError
  ELSE LET matchedRules == findMatchingRules(transaction, rules)
       IN  IF Len(matchedRules) = 0
           THEN [isClassified |-> FALSE, reason |-> "No matching rules found"]
           ELSE LET selectedRule == selectBestRule(matchedRules)
                IN  [isClassified |-> TRUE,
                     categoryId |-> selectedRule.category_id,
                     categoryName |-> IF IsSet(selectedRule.category)
                                      THEN selectedRule.category[1].category_name
                                      ELSE "undefined",
                     ruleId |-> selectedRule.rule_id,
                     matchedKeywords |->
                       getMatchedKeywords(transaction, selectedRule),
                     reason |-> "Successfully classified"]

\* classifyTransactionsBatch after the rules are loaded
classifyBatchWithRules_StopsAtError(transactions, rules) ==
  IF Len(rules) = 0
  THEN [i \in 1..Len(transactions) |->
          [isClassified |-> FALSE, reason |-> "No active rules found for company"]]
  ELSE LET Raising == {j \in 1..Len(transactions) :
                         findMatchingRulesRaises(transactions[j], rules)}
           n == IF Raising = {} THEN Len(transactions)
                ELSE CHOOSE j \in Raising : \A k \in Raising : j <= k
       IN  [i \in 1..n |-> classifyBatchEntry(transactions[i], rules)]

classifyBatchWithRules(transactions, rules) ==
  IF Len(rules) = 0
  THEN [i \in 1..Len(transactions) |->
          [isClassified |-> FALSE, reason |-> "No active rules found for company"]]
  ELSE [i \in 1..Len(transactions) |-> classifyBatchEntry(transactions[i], rules)]

\* is a value of a result field set and truthy
HasCategoryId(r) == "categoryId" \in DOMAIN r /\ r.categoryId # ""

IsClassifiedResult(r) == r.isClassified

\* the loop of generateClassificationStats over classifiedResults
RECURSIVE countCategories_Overwrites(_, _, _)
countCategories_Overwrites(categoryStats, classifiedResults, i) ==
  IF i > Len(classifiedResults) THEN categoryStats
  ELSE LET result == classifiedResults[i]
       IN  IF HasCategoryId(result)
           THEN countCategories_Overwrites(
                  MapSet(categoryStats, result.categoryId, 1),
                  classifiedResults, i + 1)
           ELSE countCategories_Overwrites(categoryStats, classifiedResults, i + 1)

RECURSIVE countCategories(_, _, _)
countCategories(categoryStats, classifiedResults, i) ==
  IF i > Len(classifiedResults) THEN categoryStats
  ELSE LET result == classifiedResults[i]
           seen == IF HasCategoryId(result) /\ result.categoryId \in DOMAIN categoryStats
                   THEN categoryStats[result.categoryId] ELSE 0
       IN  IF HasCategoryId(result)
           THEN countCategories(MapSet(categoryStats, result.categoryId, seen + 1),
                                classifiedResults, i + 1)
           ELSE countCategories(categoryStats, classifiedResults, i + 1)

generateClassificationStats(results) ==
  LET totalCount == Len(results)
      classifiedResults == SelectSeq(results, IsClassifiedResult)
      classifiedCount == Len(classifiedResults)
  IN  [totalCount |-> totalCount,
       classifiedCount |-> classifiedCount,
       unclassifiedCount |-> totalCount - classifiedCount,
       categoryStats |-> countCategories(EmptyMap, classifiedResults, 1)]

(***************************************************************************)
(* Rule cache.                                                             *)
(***************************************************************************)
AllCompaniesKey == "rules_all_companies"

CompanyKey_OneKey(companyId) == "rules_"

CompanyKey(companyId) == "rules_" \o companyId

\* the cache key the classifier looks up for a context
ContextKey(context) ==
  IF context.userType = "ADMIN" THEN AllCompaniesKey
  ELSE CompanyKey(context.companyId)

\* if (this.rulesCache.has(cacheKey)) { expiry && expiry > now }
CacheHit_Inclusive(cacheKey, t) ==
  /\ cacheKey \in DOMAIN rulesCache
  /\ cacheKey \in DOMAIN cacheExpiry
  /\ cacheExpiry[cacheKey] # 0
  /\ cacheExpiry[cacheKey] >= t

CacheHit(cacheKey, t) ==
  /\ cacheKey \in DOMAIN rulesCache
  /\ cacheKey \in DOMAIN cacheExpiry
  /\ cacheExpiry[cacheKey] # 0
  /\ cacheExpiry[cacheKey] > t

\* the expiry stored with a refreshed entry: now + this.CACHE_TTL, where now
\* was read when the lookup began
FreshExpiry_FromInstall(lookupNow, installNow) == installNow + CACHE_TTL

FreshExpiry(lookupNow, installNow) == lookupNow + CACHE_TTL

\* the database rows a lookup for the context asks for
StoreResults(db, context) ==
  IF context.userType = "ADMIN" THEN getAllActiveRules(db)
  ELSE getRulesByCompany(db, context.companyId)

CacheEntry(cacheKey) ==
  IF cacheKey \in DOMAIN rulesCache /\ cacheKey \in DOMAIN cacheExpiry
  THEN << [rules |-> rulesCache[cacheKey], expiresAt |-> cacheExpiry[cacheKey]] >>
  ELSE Null

AllKeys == {AllCompaniesKey} \cup {CompanyKey(c) : c \in Tenants}

IdleCall == [pc |-> "idle"]

Other == [op |-> "other"]

Quiescent == \A c \in Callers : calls[c].pc = "idle"

\* history record of a cache lookup
Lookup(cacheKey, hit) ==
  [cacheKey |-> cacheKey, at |-> now, entry |-> CacheEntry(cacheKey),
   storeInvoked |-> ~hit, afterDrop |-> dropped[cacheKey]]

\* history record of a classifyTransaction call that returned
Returned(context, rules, fromCache, result, afterChange) ==
  [context |-> context, candidates |-> rules, fromCache |-> fromCache,
   result |-> result, afterChange |-> afterChange,
   current |-> rules \in StoreResults(Database, context)]

(***************************************************************************)
(* Initial state: an engine just constructed over an empty rule store.     *)
(***************************************************************************)
EngineInit ==
  /\ now = 0
  /\ ticks = 0
  /\ rulesTable = << >>
  /\ categoriesTable = EmptyMap
  /\ nextRuleId = 1
  /\ uploads = 0
  /\ rulesCache = EmptyMap
  /\ cacheExpiry = EmptyMap
  /\ calls = [c \in Callers |-> IdleCall]
  /\ last = Other
  /\ dropped = [k \in AllKeys |-> "no"]
  /\ rulesChanged = {}
  /\ windowCalls = [k \in AllKeys |-> 0]

MatcherIdle ==
  /\ mPhase = "idle"
  /\ mTx = Tx(<< >>, 0, 0)
  /\ mRules = << >>
  /\ mOut = [phase |-> "idle"]

RunnerIdle ==
  /\ batch = [pc |-> "idle"]
  /\ verdicts = EmptyMap
  /\ pipe = [pc |-> "idle", reruns |-> 0]
  /\ transactionsTable = << >>
  /\ saveLog = << >>
  /\ parked = [pc |-> "idle", reruns |-> 0]

Init == EngineInit /\ MatcherIdle /\ RunnerIdle

(***************************************************************************)
(* Operations of the engine and of the rule store.                         *)
(***************************************************************************)
\* the clock advances
Tick(d) ==
  /\ ticks < MaxTicks
  /\ now' = now + d
  /\ ticks' = ticks + 1
  /\ last' = Other
  /\ UNCHANGED << rulesTable, categoriesTable, nextRuleId, uploads, rulesCache,
                  cacheExpiry, calls, dropped, rulesChanged, windowCalls >>
  /\ UNCHANGED matcherVars

\* RuleDataService.processRulesFile: a validated rule file is committed
ProcessRulesFile(rulesData) ==
  /\ uploads < MaxUploads
  /\ LET db == saveRulesToDatabase(Database, rulesData)
     IN  /\ rulesTable' = db.rules
         /\ categoriesTable' = db.categories
         /\ nextRuleId' = db.nextRuleId
  /\ uploads' = uploads + 1
  /\ rulesChanged' = rulesChanged \cup (FileCompanies(rulesData) \cap Tenants)
  /\ last' = Other
  /\ UNCHANGED << now, ticks, rulesCache, cacheExpiry, calls, dropped,
                  windowCalls >>
  /\ UNCHANGED matcherVars

\* classifyTransaction up to the first await that suspends: the cache lookup
\* of getCachedRules / getAllCompanyRules; on a hit the call runs to its end
ClassifyTransaction(c, context) ==
  /\ calls[c].pc = "idle"
  /\ LET cacheKey == ContextKey(context)
         hit == CacheHit(cacheKey, now)
         inWindow == cacheKey \in DOMAIN cacheExpiry /\ now < cacheExpiry[cacheKey]
         afterChange == context.userType # "ADMIN" /\ context.companyId \in rulesChanged
     IN  /\ dropped' = [dropped EXCEPT ![cacheKey] = "no"]
         /\ rulesChanged' = IF context.userType # "ADMIN"
                            THEN rulesChanged \ {context.companyId}
                            ELSE rulesChanged
         /\ IF hit
            THEN /\ last' = [op |-> "classified",
                             lookup |-> Lookup(cacheKey, TRUE),
                             call |-> Returned(context, rulesCache[cacheKey], TRUE,
                                        classifyCaught(context, rulesCache[cacheKey]),
                                        afterChange)]
                 /\ UNCHANGED << calls, windowCalls >>
            ELSE /\ calls' = [calls EXCEPT ![c] =
                                [pc |-> "querying", context |-> context,
                                 now |-> now, cacheKey |-> cacheKey,
                                 afterChange |-> afterChange,
                                 lookup |-> Lookup(cacheKey, FALSE)]]
                 /\ windowCalls' = [windowCalls EXCEPT ![cacheKey] =
                                      IF inWindow THEN @ + 1 ELSE 1]
                 /\ last' = [op |-> "lookup", lookup |-> Lookup(cacheKey, FALSE)]
  /\ UNCHANGED << now, ticks, rulesTable, categoriesTable, nextRuleId, uploads,
                  rulesCache, cacheExpiry >>
  /\ UNCHANGED matcherVars

\* the database answers the query of getRulesByCompany / getAllActiveRules
StoreQuery(c) ==
  /\ calls[c].pc = "querying"
  /\ \E rules \in StoreResults(Database, calls[c].context) :
       calls' = [calls EXCEPT ![c] =
                   [pc |-> "fetched", context |-> calls[c].context,
                    now |-> calls[c].now, cacheKey |-> calls[c].cacheKey,
                    afterChange |-> calls[c].afterChange,
                    lookup |-> calls[c].lookup, rules |-> rules,
                    readAt |-> now]]
  /\ last' = Other
  /\ UNCHANGED << now, ticks, rulesTable, categoriesTable, nextRuleId, uploads,
                  rulesCache, cacheExpiry, dropped, rulesChanged, windowCalls >>
  /\ UNCHANGED matcherVars

\* the database query rejects: the catch block of classifyTransaction
StoreFail(c) ==
  /\ calls[c].pc = "querying"
  /\ calls' = [calls EXCEPT ![c] = IdleCall]
  /\ last' = [op |-> "failed", result |-> ClassificationError]
  /\ UNCHANGED << now, ticks, rulesTable, categoriesTable, nextRuleId, uploads,
                  rulesCache, cacheExpiry, dropped, rulesChanged, windowCalls >>
  /\ UNCHANGED matcherVars

\* the awaited query resolves: the cache is updated and the call runs to its end
FinishLookup(c) ==
  /\ calls[c].pc = "fetched"
  /\ rulesCache' = MapSet(rulesCache, calls[c].cacheKey, calls[c].rules)
  /\ cacheExpiry' = MapSet(cacheExpiry, calls[c].cacheKey,
                           FreshExpiry(calls[c].now, now))
  /\ calls' = [calls EXCEPT ![c] = IdleCall]
  /\ last' = [op |-> "classified",
              lookup |-> calls[c].lookup,
              call |-> Returned(calls[c].context, calls[c].rules, FALSE,
                         classifyCaught(calls[c].context, calls[c].rules),
                         calls[c].afterChange)]
  /\ UNCHANGED << now, ticks, rulesTable, categoriesTable, nextRuleId, uploads,
                  dropped, rulesChanged, windowCalls >>
  /\ UNCHANGED matcherVars

InvalidateRulesCache_WrongKey(companyId) ==
  LET cacheKey == CompanyKey(companyId)
  IN  /\ rulesCache' = MapDelete(rulesCache, companyId)
      /\ cacheExpiry' = MapDelete(cacheExpiry, companyId)
      /\ last' = [op |-> "invalidate", companyId |-> companyId,
                  hadEntry |-> cacheKey \in DOMAIN rulesCache]
      /\ dropped' = [dropped EXCEPT ![cacheKey] = "invalidate"]
      /\ windowCalls' = [windowCalls EXCEPT ![cacheKey] = 0]
      /\ UNCHANGED << now, ticks, rulesTable, categoriesTable, nextRuleId,
                      uploads, calls, rulesChanged >>
      /\ UNCHANGED matcherVars

InvalidateRulesCache_ClearsAll(companyId) ==
  LET cacheKey == CompanyKey(companyId)
  IN  /\ rulesCache' = EmptyMap
      /\ cacheExpiry' = EmptyMap
      /\ last' = [op |-> "invalidate", companyId |-> companyId,
                  hadEntry |-> cacheKey \in DOMAIN rulesCache]
      /\ dropped' = [dropped EXCEPT ![cacheKey] = "invalidate"]
      /\ windowCalls' = [windowCalls EXCEPT ![cacheKey] = 0]
      /\ UNCHANGED << now, ticks, rulesTable, categoriesTable, nextRuleId,
                      uploads, calls, rulesChanged >>
      /\ UNCHANGED matcherVars

InvalidateRulesCache(companyId) ==
  LET cacheKey == CompanyKey(companyId)
  IN  /\ rulesCache' = MapDelete(rulesCache, cacheKey)
      /\ cacheExpiry' = MapDelete(cacheExpiry, cacheKey)
      /\ last' = [op |-> "invalidate", companyId |-> companyId,
                  hadEntry |-> cacheKey \in DOMAIN rulesCache]
      /\ dropped' = [dropped EXCEPT ![cacheKey] = "invalidate"]
      /\ windowCalls' = [windowCalls EXCEPT ![cacheKey] = 0]
      /\ UNCHANGED << now, ticks, rulesTable, categoriesTable, nextRuleId,
                      uploads, calls, rulesChanged >>
      /\ UNCHANGED matcherVars

ClearAllCache ==
  /\ rulesCache' = EmptyMap
  /\ cacheExpiry' = EmptyMap
  /\ last' = [op |-> "clearAll"]
  /\ dropped' = [k \in AllKeys |-> "clear"]
  /\ windowCalls' = [k \in AllKeys |-> 0]
  /\ UNCHANGED << now, ticks, rulesTable, categoriesTable, nextRuleId, uploads,
                  calls, rulesChanged >>
  /\ UNCHANGED matcherVars

(***************************************************************************)
(* The engine driven by callers that await each call before the next.      *)
(***************************************************************************)
Next ==
  \/ \E d \in TickSteps : Tick(d) /\ UNCHANGED runnerVars
  \/ \E rulesData \in RuleFiles :
       Quiescent /\ ProcessRulesFile(rulesData) /\ UNCHANGED runnerVars
  \/ \E c \in Callers, context \in Contexts :
       Quiescent /\ ClassifyTransaction(c, context) /\ UNCHANGED runnerVars
  \/ \E c \in Callers : StoreQuery(c) /\ UNCHANGED runnerVars
  \/ \E c \in Callers : StoreFail(c) /\ UNCHANGED runnerVars
  \/ \E c \in Callers : FinishLookup(c) /\ UNCHANGED runnerVars
  \/ \E companyId \in Tenants :
       Quiescent /\ InvalidateRulesCache(companyId) /\ UNCHANGED runnerVars
  \/ Quiescent /\ ClearAllCache /\ UNCHANGED runnerVars

Spec == Init /\ [][Next]_vars

(***************************************************************************)
(* Batch runner of the engine: classifyTransactionsBatch and               *)
(* generateClassificationStats, over a store that holds rules already.     *)
(***************************************************************************)
MaxBatchLen == 2

EmptyDatabase == [rules |-> << >>, categories |-> EmptyMap, nextRuleId |-> 1]

\* rule stores left by earlier uploads
LoadedStores ==
  { saveRulesToDatabase(EmptyDatabase, FileFood),
    saveRulesToDatabase(saveRulesToDatabase(EmptyDatabase, FileMisc), FileFood) }

\* an engine just constructed over a store, and what a caller holds
EngineHolding(db, held) ==
  /\ now = 0
  /\ ticks = 0
  /\ rulesTable = db.rules
  /\ categoriesTable = db.categories
  /\ nextRuleId = db.nextRuleId
  /\ uploads = 0
  /\ rulesCache = EmptyMap
  /\ cacheExpiry = EmptyMap
  /\ calls = [c \in Callers |-> IdleCall]
  /\ last = held
  /\ dropped = [k \in AllKeys |-> "no"]
  /\ rulesChanged = {}
  /\ windowCalls = [k \in AllKeys |-> 0]

EngineOver(db) == EngineHolding(db, Other)

\* a record that reached the engine without a description
Malformed == [depositAmount |-> 0, withdrawalAmount |-> 5500]

BatchTxSet == TxSet \cup {Malformed}

\* the tenant ids a batch is asked for; the controller passes
\* ADMIN_ALL_COMPANIES as the tenant id of an administrator
BatchCompanies == {"com_1", ADMIN_ALL_COMPANIES}

BatchIdle == batch.pc = "idle"

\* history record of the cache lookup of a batch
BatchLookup(cacheKey, hit) ==
  [cacheKey |-> cacheKey, at |-> now, entry |-> CacheEntry(cacheKey),
   storeInvoked |-> ~hit]

\* history record of a classifyTransactionsBatch call that returned
BatchReturned(companyId, transactions, lookups, rules, results) ==
  [op |-> "batch", companyId |-> companyId, transactions |-> transactions,
   lookups |-> lookups, rules |-> rules, results |-> results]

\* the lookup of a key counts in the history of that key
NoteLookup(cacheKey, hit) ==
  LET inWindow == cacheKey \in DOMAIN cacheExpiry /\ now < cacheExpiry[cacheKey]
  IN  IF cacheKey \in AllKeys
      THEN /\ dropped' = [dropped EXCEPT ![cacheKey] = "no"]
           /\ windowCalls' = IF hit THEN windowCalls
                             ELSE [windowCalls EXCEPT ![cacheKey] =
                                     IF inWindow THEN @ + 1 ELSE 1]
      ELSE UNCHANGED << dropped, windowCalls >>

\* classifyTransactionsBatch up to the await of getCachedRules; an empty list
\* returns at once, and on a cache hit the call runs to its end
ClassifyTransactionsBatch_NoEmptyGuard(companyId, transactions) ==
  /\ BatchIdle
  /\ LET cacheKey == CompanyKey(companyId)
         hit == CacheHit(cacheKey, now)
     IN  /\ NoteLookup(cacheKey, hit)
         /\ IF hit
            THEN /\ last' = BatchReturned(companyId, transactions,
                               << BatchLookup(cacheKey, TRUE) >>,
                               rulesCache[cacheKey],
                               classifyBatchWithRules(transactions,
                                                      rulesCache[cacheKey]))
                 /\ UNCHANGED batch
            ELSE /\ batch' = [pc |-> "querying", companyId |-> companyId,
                              transactions |-> transactions, now |-> now,
                              cacheKey |-> cacheKey,
                              lookup |-> BatchLookup(cacheKey, FALSE)]
                 /\ last' = [op |-> "batchLookup",
                             lookup |-> BatchLookup(cacheKey, FALSE)]
  /\ UNCHANGED << now, ticks, rulesTable, categoriesTable, nextRuleId, uploads,
                  rulesCache, cacheExpiry, calls, rulesChanged >>
  /\ UNCHANGED matcherVars
  /\ UNCHANGED << verdicts, pipe, transactionsTable, saveLog, parked >>

ClassifyTransactionsBatch(companyId, transactions) ==
  /\ BatchIdle
  /\ IF Len(transactions) = 0
     THEN /\ last' = BatchReturned(companyId, transactions, << >>, << >>, << >>)
          /\ UNCHANGED << batch, dropped, windowCalls >>
     ELSE LET cacheKey == CompanyKey(companyId)
              hit == CacheHit(cacheKey, now)
          IN  /\ NoteLookup(cacheKey, hit)
              /\ IF hit
                 THEN /\ last' = BatchReturned(companyId, transactions,
                                    << BatchLookup(cacheKey, TRUE) >>,
                                    rulesCache[cacheKey],
                                    classifyBatchWithRules(transactions,
                                                           rulesCache[cacheKey]))
                      /\ UNCHANGED batch
                 ELSE /\ batch' = [pc |-> "querying", companyId |-> companyId,
                                   transactions |-> transactions, now |-> now,
                                   cacheKey |-> cacheKey,
                                   lookup |-> BatchLookup(cacheKey, FALSE)]
                      /\ last' = [op |-> "batchLookup",
                                  lookup |-> BatchLookup(cacheKey, FALSE)]
  /\ UNCHANGED << now, ticks, rulesTable, categoriesTable, nextRuleId, uploads,
                  rulesCache, cacheExpiry, calls, rulesChanged >>
  /\ UNCHANGED matcherVars
  /\ UNCHANGED << verdicts, pipe, transactionsTable, saveLog, parked >>

\* the database answers the getRulesByCompany query of the batch
BatchStoreQuery ==
  /\ batch.pc = "querying"
  /\ \E rules \in getRulesByCompany(Database, batch.companyId) :
       batch' = [pc |-> "fetched", companyId |-> batch.companyId,
                 transactions |-> batch.transactions, now |-> batch.now,
                 cacheKey |-> batch.cacheKey, lookup |-> batch.lookup,
                 rules |-> rules]
  /\ last' = Other
  /\ UNCHANGED << now, ticks, rulesTable, categoriesTable, nextRuleId, uploads,
                  rulesCache, cacheExpiry, calls, dropped, rulesChanged,
                  windowCalls >>
  /\ UNCHANGED matcherVars
  /\ UNCHANGED << verdicts, pipe, transactionsTable, saveLog, parked >>

\* the query rejects: getCachedRules is awaited outside the try of the loop,
\* so the rejection is the outcome of classifyTransactionsBatch
BatchStoreFail ==
  /\ batch.pc = "querying"
  /\ batch' = [pc |-> "idle"]
  /\ last' = [op |-> "batchThrew", companyId |-> batch.companyId]
  /\ UNCHANGED << now, ticks, rulesTable, categoriesTable, nextRuleId, uploads,
                  rulesCache, cacheExpiry, calls, dropped, rulesChanged,
                  windowCalls >>
  /\ UNCHANGED matcherVars
  /\ UNCHANGED << verdicts, pipe, transactionsTable, saveLog, parked >>

\* the awaited query resolves: the cache is updated and the loop runs over
\* every transaction
FinishBatch ==
  /\ batch.pc = "fetched"
  /\ rulesCache' = MapSet(rulesCache, batch.cacheKey, batch.rules)
  /\ cacheExpiry' = MapSet(cacheExpiry, batch.cacheKey,
                           FreshExpiry(batch.now, now))
  /\ batch' = [pc |-> "idle"]
  /\ last' = BatchReturned(batch.companyId, batch.transactions,
                           << batch.lookup >>, batch.rules,
                           classifyBatchWithRules(batch.transactions, batch.rules))
  /\ UNCHANGED << now, ticks, rulesTable, categoriesTable, nextRuleId, uploads,
                  calls, dropped, rulesChanged, windowCalls >>
  /\ UNCHANGED matcherVars
  /\ UNCHANGED << verdicts, pipe, transactionsTable, saveLog, parked >>

\* generateClassificationStats on the list a caller holds
GenerateClassificationStats ==
  /\ last.op \in {"batch", "results"}
  /\ last' = [op |-> "stats", results |-> last.results,
              stats |-> generateClassificationStats(last.results)]
  /\ UNCHANGED << now, ticks, rulesTable, categoriesTable, nextRuleId, uploads,
                  rulesCache, cacheExpiry, calls, dropped, rulesChanged,
                  windowCalls >>
  /\ UNCHANGED matcherVars
  /\ UNCHANGED runnerVars

BatchInit ==
  /\ \E db \in LoadedStores : EngineOver(db)
  /\ MatcherIdle
  /\ RunnerIdle

\* the contexts of single calls made next to the batches
BatchContexts ==
  [companyId : {"com_1"}, userType : {"BUSINESS_OWNER"}, transactionData : BatchTxSet]

\* one call at a time; the clock goes on, and another request may invalidate
\* the tenant's entry while the batch waits for the store
BatchNext ==
  \/ Tick(CACHE_TTL) /\ UNCHANGED runnerVars
  \/ \E companyId \in BatchCompanies,
        transactions \in SeqsUpTo(BatchTxSet, MaxBatchLen) :
       Quiescent /\ ClassifyTransactionsBatch(companyId, transactions)
  \/ BatchStoreQuery
  \/ BatchStoreFail
  \/ FinishBatch
  \/ GenerateClassificationStats
  \/ \E c \in Callers, context \in BatchContexts :
       Quiescent /\ BatchIdle /\ ClassifyTransaction(c, context)
         /\ UNCHANGED runnerVars
  \/ \E c \in Callers : StoreQuery(c) /\ UNCHANGED runnerVars
  \/ \E c \in Callers : StoreFail(c) /\ UNCHANGED runnerVars
  \/ \E c \in Callers : FinishLookup(c) /\ UNCHANGED runnerVars
  \/ ~BatchIdle /\ InvalidateRulesCache(batch.companyId) /\ UNCHANGED runnerVars

BatchSpec == BatchInit /\ [][BatchNext]_vars

(***************************************************************************)
(* Repeated classification over a rule store that does not change.         *)
(***************************************************************************)
\* the verdict of the first completed run of each context is kept
NoteVerdict ==
  verdicts' =
    IF last'.op = "classified" /\ last'.call.context \notin DOMAIN verdicts
    THEN MapSet(verdicts, last'.call.context, last'.call.result)
    ELSE verdicts

RepeatInit ==
  /\ \E db \in LoadedStores : EngineOver(db)
  /\ MatcherIdle
  /\ RunnerIdle

\* the runs that are repeated: one transaction, every caller
RepeatContexts == {context \in Contexts : context.transactionData = Tx(<< "a" >>, 0, 5500)}

RepeatNext ==
  \/ Tick(CACHE_TTL) /\ UNCHANGED runnerVars
  \/ \E c \in Callers, context \in RepeatContexts :
       /\ Quiescent
       /\ ClassifyTransaction(c, context)
       /\ NoteVerdict
       /\ UNCHANGED << batch, pipe, transactionsTable, saveLog, parked >>
  \/ \E c \in Callers : StoreQuery(c) /\ UNCHANGED runnerVars
  \/ \E c \in Callers : StoreFail(c) /\ UNCHANGED runnerVars
  \/ \E c \in Callers :
       /\ FinishLookup(c)
       /\ NoteVerdict
       /\ UNCHANGED << batch, pipe, transactionsTable, saveLog, parked >>
  \/ \E companyId \in Tenants :
       Quiescent /\ InvalidateRulesCache(companyId) /\ UNCHANGED runnerVars
  \/ Quiescent /\ ClearAllCache /\ UNCHANGED runnerVars

RepeatSpec == RepeatInit /\ [][RepeatNext]_vars

(***************************************************************************)
(* generateClassificationStats applied to bounded lists of results.        *)
(***************************************************************************)
MaxResults == 3

\* values of the ClassificationResult interface: categoryId is optional
ResultShapes ==
  { [isClassified |-> TRUE, categoryId |-> "cat_1", categoryName |-> "food",
     ruleId |-> 1, matchedKeywords |-> << << "a" >> >>,
     reason |-> "Successfully classified"],
    [isClassified |-> TRUE, categoryId |-> "cat_2", categoryName |-> "etc",
     ruleId |-> 2, matchedKeywords |-> << >>,
     reason |-> "Successfully classified"],
    [isClassified |-> TRUE, reason |-> "Successfully classified"],
    [isClassified |-> FALSE, reason |-> "No matching rules found"] }

\* a caller holding a list of results
HeldResults ==
  {[op |-> "results", results |-> results] :
     results \in SeqsUpTo(ResultShapes, MaxResults)}

StatsInit ==
  /\ \E held \in HeldResults : EngineHolding(EmptyDatabase, held)
  /\ MatcherIdle
  /\ RunnerIdle

StatsNext == GenerateClassificationStats

StatsSpec == StatsInit /\ [][StatsNext]_vars

(***************************************************************************)
(* Save pipeline and reclassification (TransactionClassificationService).  *)
(***************************************************************************)
BATCH_SIZE == 100

MaxGroups == 3

MaxLimit == 2

MaxReruns == 1

MaxStoreFailures == 1

\* EncryptionService: the empty text is kept, any other text becomes a
\* ciphertext that decrypts to it; a ciphertext of another key does not decrypt
encrypt(plaintext) ==
  IF plaintext = << >> THEN << >> ELSE << "aes", plaintext >>

BadCiphertext == << "invalid_ciphertext" >>

decryptThrows(ciphertext) == ciphertext # << >> /\ ciphertext[1] # "aes"

decrypt(ciphertext) == IF ciphertext = << >> THEN << >> ELSE ciphertext[2]

ParsedTransaction(date, description_encrypted) ==
  [transaction_date |-> date, description_encrypted |-> description_encrypted,
   deposit_amount |-> 0, withdrawal_amount |-> 5500]

\* the k-th row of a parsed file of a kind
ParsedRow(kind, k) ==
  CASE kind = "uniform" -> ParsedTransaction(k, encrypt(<< "b" >>))
    [] kind = "mixed" ->
         IF k % 7 = 3 THEN ParsedTransaction(k, BadCiphertext)
         ELSE IF k % 2 = 0 THEN ParsedTransaction(k, encrypt(<< "a" >>))
         ELSE ParsedTransaction(k, encrypt(<< "b" >>))
    [] kind = "undecryptable" -> ParsedTransaction(k, BadCiphertext)

ParsedFile(kind, n) == [k \in 1..n |-> ParsedRow(kind, k)]

PipeLengths ==
  {0, 1, BATCH_SIZE, BATCH_SIZE + 1,
   (MaxGroups - 1) * BATCH_SIZE + BATCH_SIZE \div 2}

ParsedFiles ==
  {ParsedFile(kind, n) : kind \in {"uniform", "mixed"}, n \in PipeLengths}
  \cup {ParsedFile("undecryptable", n) : n \in {1, BATCH_SIZE + 1}}

\* TransactionClassificationRequest
PipeRequests ==
  [companyId : {"com_1", "all_companies"}, userType : {"BUSINESS_OWNER"},
   transactions : ParsedFiles]
  \cup
  [companyId : {ADMIN_ALL_COMPANIES}, userType : {"ADMIN"},
   transactions : ParsedFiles]

ZeroResult ==
  [totalProcessed |-> 0, classifiedCount |-> 0, unclassifiedCount |-> 0,
   errors |-> << >>]

\* result.totalProcessed += batchResult.totalProcessed, ...
addBatchResult(result, batchResult) ==
  [totalProcessed |-> result.totalProcessed + batchResult.totalProcessed,
   classifiedCount |-> result.classifiedCount + batchResult.classifiedCount,
   unclassifiedCount |-> result.unclassifiedCount + batchResult.unclassifiedCount,
   errors |-> result.errors \o batchResult.errors]

\* classificationResult.isClassified && classificationResult.categoryId
IsAssigned(classificationResult) ==
  classificationResult.isClassified /\ HasCategoryId(classificationResult)

\* result.classifiedCount++ or result.unclassifiedCount++, then
\* result.totalProcessed++
tally_SkipsUnclassified(result, assigned) ==
  [result EXCEPT !.classifiedCount = IF assigned THEN @ + 1 ELSE @,
                 !.totalProcessed = @ + 1]

tally(result, assigned) ==
  [result EXCEPT !.classifiedCount = IF assigned THEN @ + 1 ELSE @,
                 !.unclassifiedCount = IF assigned THEN @ ELSE @ + 1,
                 !.totalProcessed = @ + 1]

\* the Transaction entity processBatch builds from a verdict
newTransaction_KeepsTenant(request, parsedTransaction, classificationResult) ==
  [transaction_date |-> parsedTransaction.transaction_date,
   description_encrypted |-> parsedTransaction.description_encrypted,
   deposit_amount |-> parsedTransaction.deposit_amount,
   withdrawal_amount |-> parsedTransaction.withdrawal_amount,
   company_id |-> << request.companyId >>,
   category_id |-> IF IsAssigned(classificationResult)
                   THEN << classificationResult.categoryId >>
                   ELSE Null]

newTransaction_RequestedTenant(request, parsedTransaction, classificationResult) ==
  [transaction_date |-> parsedTransaction.transaction_date,
   description_encrypted |-> parsedTransaction.description_encrypted,
   deposit_amount |-> parsedTransaction.deposit_amount,
   withdrawal_amount |-> parsedTransaction.withdrawal_amount,
   company_id |-> IF IsAssigned(classificationResult)
                  THEN << request.companyId >>
                  ELSE Null,
   category_id |-> IF IsAssigned(classificationResult)
                   THEN << classificationResult.categoryId >>
                   ELSE Null]

newTransaction(request, parsedTransaction, classificationResult) ==
  [transaction_date |-> parsedTransaction.transaction_date,
   description_encrypted |-> parsedTransaction.description_encrypted,
   deposit_amount |-> parsedTransaction.deposit_amount,
   withdrawal_amount |-> parsedTransaction.withdrawal_amount,
   company_id |->
     IF IsAssigned(classificationResult)
     THEN IF /\ request.userType = "ADMIN"
             /\ "actualCompanyId" \in DOMAIN classificationResult
             /\ classificationResult.actualCompanyId # ""
          THEN << classificationResult.actualCompanyId >>
          ELSE << request.companyId >>
     ELSE Null,
   category_id |-> IF IsAssigned(classificationResult)
                   THEN << classificationResult.categoryId >>
                   ELSE Null]

\* transactions.slice(i, i + BATCH_SIZE): the index of its last element
sliceEnd_WholeList(i, n) == n

sliceEnd(i, n) == IF i + BATCH_SIZE - 1 < n THEN i + BATCH_SIZE - 1 ELSE n

\* transactionRepository.save(entities): rows get the next transaction ids
insertRows(table, entities) ==
  table \o [j \in 1..Len(entities) |->
              [transaction_id |-> Len(table) + j,
               transaction_date |-> entities[j].transaction_date,
               description_encrypted |-> entities[j].description_encrypted,
               deposit_amount |-> entities[j].deposit_amount,
               withdrawal_amount |-> entities[j].withdrawal_amount,
               company_id |-> entities[j].company_id,
               category_id |-> entities[j].category_id]]

PipeIdle == pipe.pc = "idle"

IdlePipe(reruns) == [pc |-> "idle", reruns |-> reruns]

\* the state of processBatch at the start of the group that begins at i
GroupStart(p, i, result) ==
  [pc |-> "next", op |-> "save", reruns |-> p.reruns, request |-> p.request,
   i |-> i, k |-> i, result |-> result, batchResult |-> ZeroResult,
   entities |-> << >>, failures |-> p.failures]

\* the context processBatch builds for the transaction at k
PipeContext(p) ==
  IF p.op = "save"
  THEN [companyId |-> p.request.companyId, userType |-> p.request.userType,
        transactionData |->
          Tx(decrypt(p.request.transactions[p.k].description_encrypted),
             p.request.transactions[p.k].deposit_amount,
             p.request.transactions[p.k].withdrawal_amount)]
  ELSE [companyId |-> p.companyId, userType |-> "undefined",
        transactionData |->
          Tx(decrypt(p.rows[p.k].description_encrypted),
             p.rows[p.k].deposit_amount, p.rows[p.k].withdrawal_amount)]

\* the ciphertext the runner decrypts for the transaction at k
PipeCiphertext(p) ==
  IF p.op = "save" THEN p.request.transactions[p.k].description_encrypted
  ELSE p.rows[p.k].description_encrypted

\* the number of transactions the loop in progress runs over
PipeLoopEnd(p) ==
  IF p.op = "save" THEN sliceEnd(p.i, Len(p.request.transactions))
  ELSE Len(p.rows)

\* the runner goes on after classifyTransaction returned a verdict
afterVerdict(p, classificationResult) ==
  IF p.op = "save"
  THEN [p EXCEPT !.pc = "next", !.k = @ + 1,
                 !.entities = Append(@, newTransaction(p.request,
                                          p.request.transactions[p.k],
                                          classificationResult)),
                 !.batchResult = tally(@, IsAssigned(classificationResult))]
  ELSE IF IsAssigned(classificationResult)
       THEN [p EXCEPT !.pc = "savingOne",
                      !.pending = [p.rows[p.k] EXCEPT
                                     !.company_id = << p.companyId >>,
                                     !.category_id =
                                       << classificationResult.categoryId >>]]
       ELSE [p EXCEPT !.pc = "next", !.k = @ + 1,
                      !.result = tally(@, FALSE)]

\* classifyAndSaveTransactions up to the first processBatch; an empty list
\* returns the zero counts
ClassifyAndSaveTransactions(request) ==
  /\ PipeIdle
  /\ IF Len(request.transactions) = 0
     THEN /\ last' = [op |-> "saved", request |-> request, result |-> ZeroResult]
          /\ UNCHANGED pipe
     ELSE /\ pipe' = GroupStart([reruns |-> pipe.reruns, request |-> request,
                                failures |-> 0], 1, ZeroResult)
          /\ last' = Other
  /\ UNCHANGED << now, ticks, rulesTable, categoriesTable, nextRuleId, uploads,
                  rulesCache, cacheExpiry, calls, dropped, rulesChanged,
                  windowCalls >>
  /\ UNCHANGED matcherVars
  /\ UNCHANGED << batch, verdicts, transactionsTable, saveLog, parked >>

\* decrypt raises for the transaction at k: the catch of the loop records the
\* error and the loop goes on
PipeDecryptError_Aborts ==
  /\ pipe.pc = "next"
  /\ pipe.k <= PipeLoopEnd(pipe)
  /\ decryptThrows(PipeCiphertext(pipe))
  /\ pipe' = IdlePipe(pipe.reruns)
  /\ last' = IF pipe.op = "save"
             THEN [op |-> "saveThrew", request |-> pipe.request]
             ELSE [op |-> "reclassifyThrew", companyId |-> pipe.companyId]
  /\ UNCHANGED << now, ticks, rulesTable, categoriesTable, nextRuleId, uploads,
                  rulesCache, cacheExpiry, calls, dropped, rulesChanged,
                  windowCalls >>
  /\ UNCHANGED matcherVars
  /\ UNCHANGED << batch, verdicts, transactionsTable, saveLog, parked >>

PipeDecryptError ==
  /\ pipe.pc = "next"
  /\ pipe.k <= PipeLoopEnd(pipe)
  /\ decryptThrows(PipeCiphertext(pipe))
  /\ pipe' = IF pipe.op = "save"
             THEN [pipe EXCEPT !.k = @ + 1,
                               !.batchResult.errors = Append(@, "Decryption failed")]
             ELSE [pipe EXCEPT !.k = @ + 1,
                               !.result.errors = Append(@, "Decryption failed")]
  /\ last' = Other
  /\ UNCHANGED << now, ticks, rulesTable, categoriesTable, nextRuleId, uploads,
                  rulesCache, cacheExpiry, calls, dropped, rulesChanged,
                  windowCalls >>
  /\ UNCHANGED matcherVars
  /\ UNCHANGED << batch, verdicts, transactionsTable, saveLog, parked >>

\* the loop calls ruleEngineService.classifyTransaction for the transaction
\* at k; on a cache hit the verdict is there at once
PipeClassify(c) ==
  /\ pipe.pc = "next"
  /\ pipe.k <= PipeLoopEnd(pipe)
  /\ ~decryptThrows(PipeCiphertext(pipe))
  /\ ClassifyTransaction(c, PipeContext(pipe))
  /\ pipe' = IF last'.op = "classified"
             THEN afterVerdict(pipe, last'.call.result)
             ELSE [pipe EXCEPT !.pc = "awaiting"]
  /\ UNCHANGED << batch, verdicts, transactionsTable, saveLog, parked >>

PipeStoreQuery(c) ==
  /\ pipe.pc = "awaiting"
  /\ StoreQuery(c)
  /\ UNCHANGED runnerVars

\* the store rejects: classifyTransaction returns the error verdict
PipeStoreFail(c) ==
  /\ pipe.pc = "awaiting"
  /\ pipe.failures < MaxStoreFailures
  /\ StoreFail(c)
  /\ pipe' = afterVerdict([pipe EXCEPT !.failures = @ + 1], ClassificationError)
  /\ UNCHANGED << batch, verdicts, transactionsTable, saveLog, parked >>

PipeFinishLookup(c) ==
  /\ pipe.pc = "awaiting"
  /\ FinishLookup(c)
  /\ pipe' = afterVerdict(pipe, last'.call.result)
  /\ UNCHANGED << batch, verdicts, transactionsTable, saveLog, parked >>

\* processBatch returned: the counts are added and the loop of
\* classifyAndSaveTransactions takes the next slice, or returns
GroupDone(p) ==
  LET result == addBatchResult(p.result, p.batchResult)
  IN  IF p.i + BATCH_SIZE <= Len(p.request.transactions)
      THEN /\ pipe' = GroupStart(p, p.i + BATCH_SIZE, result)
           /\ last' = [op |-> "group", request |-> p.request, result |-> result]
      ELSE /\ pipe' = IdlePipe(p.reruns)
           /\ last' = [op |-> "saved", request |-> p.request, result |-> result]

\* the loop of processBatch is over: the entities are handed to
\* transactionRepository.save, unless there is none
ProcessBatchSave ==
  /\ pipe.pc = "next"
  /\ pipe.op = "save"
  /\ pipe.k > PipeLoopEnd(pipe)
  /\ IF Len(pipe.entities) > 0
     THEN /\ pipe' = [pipe EXCEPT !.pc = "saving"]
          /\ last' = Other
     ELSE GroupDone(pipe)
  /\ UNCHANGED << now, ticks, rulesTable, categoriesTable, nextRuleId, uploads,
                  rulesCache, cacheExpiry, calls, dropped, rulesChanged,
                  windowCalls >>
  /\ UNCHANGED matcherVars
  /\ UNCHANGED << batch, verdicts, transactionsTable, saveLog, parked >>

\* history record of a call of transactionRepository.save
SaveCall(op, at, entities, ok) ==
  [op |-> op, at |-> at, entities |-> entities, ok |-> ok]

\* the save of the group is committed
SaveOk ==
  /\ pipe.pc = "saving"
  /\ transactionsTable' = insertRows(transactionsTable, pipe.entities)
  /\ saveLog' = Append(saveLog, SaveCall("save", pipe.i, pipe.entities, TRUE))
  /\ GroupDone(pipe)
  /\ UNCHANGED << now, ticks, rulesTable, categoriesTable, nextRuleId, uploads,
                  rulesCache, cacheExpiry, calls, dropped, rulesChanged,
                  windowCalls >>
  /\ UNCHANGED matcherVars
  /\ UNCHANGED << batch, verdicts, parked >>

\* the save of the group rejects: processBatch throws, and
\* classifyAndSaveTransactions throws in its catch
SaveFail_Swallowed ==
  /\ pipe.pc = "saving"
  /\ saveLog' = Append(saveLog, SaveCall("save", pipe.i, pipe.entities, FALSE))
  /\ GroupDone(pipe)
  /\ UNCHANGED << now, ticks, rulesTable, categoriesTable, nextRuleId, uploads,
                  rulesCache, cacheExpiry, calls, dropped, rulesChanged,
                  windowCalls >>
  /\ UNCHANGED matcherVars
  /\ UNCHANGED << batch, verdicts, transactionsTable, parked >>

SaveFail ==
  /\ pipe.pc = "saving"
  /\ saveLog' = Append(saveLog, SaveCall("save", pipe.i, pipe.entities, FALSE))
  /\ pipe' = IdlePipe(pipe.reruns)
  /\ last' = [op |-> "saveThrew", request |-> pipe.request]
  /\ UNCHANGED << now, ticks, rulesTable, categoriesTable, nextRuleId, uploads,
                  rulesCache, cacheExpiry, calls, dropped, rulesChanged,
                  windowCalls >>
  /\ UNCHANGED matcherVars
  /\ UNCHANGED << batch, verdicts, transactionsTable, parked >>

\* transactionRepository.find({where: {company_id: IsNull()}, take: limit,
\* order: {transaction_date: 'DESC'}}): the ids of the rows found, in order
RECURSIVE latestFirst(_, _, _)
latestFirst(table, ids, limit) ==
  IF ids = {} \/ limit = 0 THEN << >>
  ELSE LET latest ==
             CHOOSE id \in ids :
               \A other \in ids :
                 \/ table[other].transaction_date < table[id].transaction_date
                 \/ /\ table[other].transaction_date = table[id].transaction_date
                    /\ other >= id
       IN  << table[latest] >> \o latestFirst(table, ids \ {latest}, limit - 1)

findUnclassified(table, limit) ==
  latestFirst(table, {id \in DOMAIN table : table[id].company_id = Null}, limit)

\* reclassifyUnclassifiedTransactions up to the find
ReclassifyUnclassifiedTransactions(companyId, limit) ==
  /\ PipeIdle
  /\ pipe.reruns < MaxReruns
  /\ pipe' = [pc |-> "finding", op |-> "reclassify", reruns |-> pipe.reruns,
              companyId |-> companyId, limit |-> limit, rows |-> << >>,
              k |-> 1, result |-> ZeroResult, pending |-> Null,
              failures |-> 0]
  /\ last' = Other
  /\ UNCHANGED << now, ticks, rulesTable, categoriesTable, nextRuleId, uploads,
                  rulesCache, cacheExpiry, calls, dropped, rulesChanged,
                  windowCalls >>
  /\ UNCHANGED matcherVars
  /\ UNCHANGED << batch, verdicts, transactionsTable, saveLog, parked >>

\* the find answers; no row found returns the zero counts
ReclassifyFind ==
  /\ pipe.pc = "finding"
  /\ LET rows == findUnclassified(transactionsTable, pipe.limit)
     IN  IF Len(rows) = 0
         THEN /\ pipe' = IdlePipe(pipe.reruns + 1)
              /\ last' = [op |-> "reclassified", companyId |-> pipe.companyId,
                          rows |-> rows, result |-> pipe.result]
         ELSE /\ pipe' = [pipe EXCEPT !.pc = "next", !.rows = rows]
              /\ last' = Other
  /\ UNCHANGED << now, ticks, rulesTable, categoriesTable, nextRuleId, uploads,
                  rulesCache, cacheExpiry, calls, dropped, rulesChanged,
                  windowCalls >>
  /\ UNCHANGED matcherVars
  /\ UNCHANGED << batch, verdicts, transactionsTable, saveLog, parked >>

\* the find rejects: the outer catch throws
ReclassifyFindFail ==
  /\ pipe.pc = "finding"
  /\ pipe' = IdlePipe(pipe.reruns + 1)
  /\ last' = [op |-> "reclassifyThrew", companyId |-> pipe.companyId]
  /\ UNCHANGED << now, ticks, rulesTable, categoriesTable, nextRuleId, uploads,
                  rulesCache, cacheExpiry, calls, dropped, rulesChanged,
                  windowCalls >>
  /\ UNCHANGED matcherVars
  /\ UNCHANGED << batch, verdicts, transactionsTable, saveLog, parked >>

\* transactionRepository.save(transaction) is committed, then
\* classifiedCount++ and totalProcessed++
ReclassifySaveOk ==
  /\ pipe.pc = "savingOne"
  /\ transactionsTable' =
       [transactionsTable EXCEPT ![pipe.pending.transaction_id] = pipe.pending]
  /\ saveLog' = Append(saveLog,
                       SaveCall("reclassify", pipe.k, << pipe.pending >>, TRUE))
  /\ pipe' = [pipe EXCEPT !.pc = "next", !.k = @ + 1, !.pending = Null,
                          !.result = tally(@, TRUE)]
  /\ last' = Other
  /\ UNCHANGED << now, ticks, rulesTable, categoriesTable, nextRuleId, uploads,
                  rulesCache, cacheExpiry, calls, dropped, rulesChanged,
                  windowCalls >>
  /\ UNCHANGED matcherVars
  /\ UNCHANGED << batch, verdicts, parked >>

\* the save rejects: the catch of the loop records the error, no count moves
ReclassifySaveFail ==
  /\ pipe.pc = "savingOne"
  /\ saveLog' = Append(saveLog,
                       SaveCall("reclassify", pipe.k, << pipe.pending >>, FALSE))
  /\ pipe' = [pipe EXCEPT !.pc = "next", !.k = @ + 1, !.pending = Null,
                          !.result.errors = Append(@, "save failed")]
  /\ last' = Other
  /\ UNCHANGED << now, ticks, rulesTable, categoriesTable, nextRuleId, uploads,
                  rulesCache, cacheExpiry, calls, dropped, rulesChanged,
                  windowCalls >>
  /\ UNCHANGED matcherVars
  /\ UNCHANGED << batch, verdicts, transactionsTable, parked >>

\* the loop over the rows is over
ReclassifyReturn ==
  /\ pipe.pc = "next"
  /\ pipe.op = "reclassify"
  /\ pipe.k > Len(pipe.rows)
  /\ pipe' = IdlePipe(pipe.reruns + 1)
  /\ last' = [op |-> "reclassified", companyId |-> pipe.companyId,
              rows |-> pipe.rows, result |-> pipe.result]
  /\ UNCHANGED << now, ticks, rulesTable, categoriesTable, nextRuleId, uploads,
                  rulesCache, cacheExpiry, calls, dropped, rulesChanged,
                  windowCalls >>
  /\ UNCHANGED matcherVars
  /\ UNCHANGED << batch, verdicts, transactionsTable, saveLog, parked >>

\* rules of com_1 (cat_4, keyword b) and com_2 (cat_3, keyword a)
PipeStore == saveRulesToDatabase(saveRulesToDatabase(EmptyDatabase, FileFood), FileMisc)

PipelineInit ==
  /\ \E held \in {Other} \cup HeldResults : EngineHolding(PipeStore, held)
  /\ MatcherIdle
  /\ RunnerIdle

\* one file is saved into the empty table, then unclassified rows are
\* reclassified; the clock moves while the runner waits for the store
PipelineNext ==
  \/ /\ pipe.pc \in {"awaiting", "saving", "finding", "savingOne"}
     /\ Tick(CACHE_TTL)
     /\ UNCHANGED runnerVars
  \/ /\ saveLog = << >>
     /\ \E request \in PipeRequests : ClassifyAndSaveTransactions(request)
  \/ PipeDecryptError
  \/ \E c \in Callers : PipeClassify(c)
  \/ \E c \in Callers : PipeStoreQuery(c)
  \/ \E c \in Callers : PipeStoreFail(c)
  \/ \E c \in Callers : PipeFinishLookup(c)
  \/ ProcessBatchSave
  \/ SaveOk
  \/ SaveFail
  \/ \E companyId \in Tenants, limit \in 1..MaxLimit :
       ReclassifyUnclassifiedTransactions(companyId, limit)
  \/ ReclassifyFind
  \/ ReclassifyFindFail
  \/ ReclassifySaveOk
  \/ ReclassifySaveFail
  \/ ReclassifyReturn
  \/ /\ GenerateClassificationStats
     /\ UNCHANGED runnerVars

PipelineSpec == PipelineInit /\ [][PipelineNext]_vars

(***************************************************************************)
(* Two calls of reclassifyUnclassifiedTransactions that overlap: the        *)
(* service is one instance, and each await of a call lets the other run.    *)
(***************************************************************************)
\* a rule file of the tenant all_companies
FileShared ==
  [companies |-> <<
     [company_id |-> "all_companies",
      categories |-> <<
        CategoryRule("cat_5", "shared", << << "b" >> >>, << >>,
                     Null, Null, "ALL", << 2 >>) >>] >>]

\* rules of com_1 (cat_4, keyword b), com_2 (cat_3, keyword a) and
\* all_companies (cat_5, keyword b)
OverlapStore == saveRulesToDatabase(PipeStore, FileShared)

\* rows saved by processBatch when no rule matched them
UnclassifiedRows(descriptions) ==
  insertRows(<< >>,
    [k \in 1..Len(descriptions) |->
       newTransaction([companyId |-> "com_1", userType |-> "BUSINESS_OWNER"],
                      ParsedTransaction(k, encrypt(descriptions[k])),
                      [isClassified |-> FALSE,
                       reason |-> "No active rules found for company"])])

OverlapTables ==
  {UnclassifiedRows(<< << "b" >> >>),
   UnclassifiedRows(<< << "b" >>, << "a" >> >>),
   UnclassifiedRows(<< << "a" >>, << "b" >>, << "b" >> >>)}

OverlapInit ==
  /\ EngineOver(OverlapStore)
  /\ MatcherIdle
  /\ batch = [pc |-> "idle"]
  /\ verdicts = EmptyMap
  /\ pipe = IdlePipe(0)
  /\ parked = IdlePipe(0)
  /\ transactionsTable \in OverlapTables
  /\ saveLog = << >>

\* the call in progress is suspended at its await and the other call of the
\* service runs on
Resume ==
  /\ Quiescent
  /\ pipe.pc # "idle" \/ parked.pc # "idle"
  /\ pipe' = parked
  /\ parked' = pipe
  /\ last' = Other
  /\ UNCHANGED << now, ticks, rulesTable, categoriesTable, nextRuleId, uploads,
                  rulesCache, cacheExpiry, calls, dropped, rulesChanged,
                  windowCalls >>
  /\ UNCHANGED matcherVars
  /\ UNCHANGED << batch, verdicts, transactionsTable, saveLog >>

OverlapNext ==
  \/ Resume
  \/ \E companyId \in Tenants, limit \in 1..MaxLimit :
       ReclassifyUnclassifiedTransactions(companyId, limit)
  \/ ReclassifyFind
  \/ \E c \in Callers : PipeClassify(c)
  \/ \E c \in Callers : PipeStoreQuery(c)
  \/ \E c \in Callers : PipeFinishLookup(c)
  \/ ReclassifySaveOk
  \/ ReclassifyReturn

OverlapSpec == OverlapInit /\ [][OverlapNext]_vars

(***************************************************************************)
(* Calls for two tenants that interleave at their awaits on one engine.     *)
(***************************************************************************)
\* the classifyTransaction calls that may be in flight together
ConcurrentCallers == {1, 2}

\* the tenant each caller works for
TenantOf(c) == IF c = 1 THEN "com_1" ELSE "all_companies"

ConcurrentContexts(c) ==
  [companyId : {TenantOf(c)}, userType : {"BUSINESS_OWNER"},
   transactionData : {Tx(<< "b" >>, 0, 5500)}]

\* the batches of com_1 that run next to the single calls
ConcurrentBatches ==
  {<< Tx(<< "b" >>, 0, 5500) >>,
   << Tx(<< "a" >>, 0, 5500), Tx(<< "b" >>, 0, 5500) >>}

ConcurrentInit ==
  /\ now = 0
  /\ ticks = 0
  /\ rulesTable = OverlapStore.rules
  /\ categoriesTable = OverlapStore.categories
  /\ nextRuleId = OverlapStore.nextRuleId
  /\ uploads = 0
  /\ rulesCache = EmptyMap
  /\ cacheExpiry = EmptyMap
  /\ calls = [c \in ConcurrentCallers |-> IdleCall]
  /\ last = Other
  /\ dropped = [k \in AllKeys |-> "no"]
  /\ rulesChanged = {}
  /\ windowCalls = [k \in AllKeys |-> 0]
  /\ MatcherIdle
  /\ RunnerIdle

\* nothing waits for another call: a call starts while others are in flight
ConcurrentNext ==
  \/ Tick(CACHE_TTL) /\ UNCHANGED runnerVars
  \/ \E transactions \in ConcurrentBatches :
       ClassifyTransactionsBatch("com_1", transactions)
  \/ BatchStoreQuery
  \/ FinishBatch
  \/ \E c \in ConcurrentCallers :
       \E context \in ConcurrentContexts(c) :
         ClassifyTransaction(c, context) /\ UNCHANGED runnerVars
  \/ \E c \in ConcurrentCallers : StoreQuery(c) /\ UNCHANGED runnerVars
  \/ \E c \in ConcurrentCallers : FinishLookup(c) /\ UNCHANGED runnerVars

ConcurrentSpec == ConcurrentInit /\ [][ConcurrentNext]_vars

(***************************************************************************)
(* Matcher and resolver applied to bounded inputs.                         *)
(***************************************************************************)
MaxPriority == 3

Amounts == {0, 999, 1000, 50000, 50001}

AmountBounds == {Null, << 0 >>, << 1000 >>, << 50000 >>}

KeywordTexts ==
  { << "a" >>, << "A", " " >>, << "b" >>, << "a", " ", "b" >>, << >> }

Descriptions == SeqsUpTo(Chars, MaxDescLen)

KeywordLists ==
  SeqsUpTo([keyword : KeywordTexts, keyword_type : KeywordType], MaxKeywords)

Rule(id, type, min, max, prio, kws) ==
  [rule_id |-> id, company_id |-> "com_1", category_id |-> "cat_1",
   min_amount |-> min, max_amount |-> max, transaction_type |-> type,
   priority |-> prio, is_active |-> TRUE, keywords |-> kws, category |-> Null]

\* candidate lists for the resolver: rule i has any priority and either
\* matches every transaction (ALL) or only deposits
CandidateLists ==
  UNION {{[i \in 1..k |-> Rule(i, f[i][1], Null, Null, f[i][2], << >>)] :
            f \in [1..k -> {"ALL", "DEPOSIT"} \X (1..MaxPriority)]} :
         k \in 1..MaxMatched}

MatcherInit ==
  /\ EngineInit
  /\ RunnerIdle
  /\ mOut = [phase |-> "input"]
  /\ \/ /\ mPhase = "evaluate"
        /\ \E d \in Amounts, w \in Amounts : mTx = Tx(<< >>, d, w)
        /\ \E t \in TransactionType, min \in AmountBounds, max \in AmountBounds :
             mRules = << Rule(1, t, min, max, 1, << >>) >>
     \/ /\ mPhase = "evaluate"
        /\ \E d \in Descriptions : mTx = Tx(d, 0, 5500)
        /\ \E kws \in KeywordLists :
             mRules = << Rule(1, "ALL", Null, Null, 1, kws) >>
     \/ /\ mPhase = "resolve"
        /\ mTx = Tx(<< >>, 0, 5500)
        /\ mRules \in CandidateLists

\* evaluateRule and its three stages on one rule
Evaluate ==
  /\ mPhase = "evaluate"
  /\ mOut' = [phase |-> "evaluated",
              type |-> checkTransactionType(mTx, mRules[1].transaction_type),
              amount |-> checkAmountRange(mTx, mRules[1]),
              keyword |-> checkKeywordMatching(mTx, mRules[1]),
              matched |-> evaluateRule(mTx, mRules[1])]
  /\ mPhase' = "done"
  /\ UNCHANGED << mTx, mRules >>
  /\ UNCHANGED engineVars
  /\ UNCHANGED runnerVars

\* classifyTransaction on a loaded candidate list
Resolve ==
  /\ mPhase = "resolve"
  /\ mOut' = [phase |-> "resolved",
              result |-> classifyWithRules(
                           [companyId |-> "com_1", userType |-> "BUSINESS_OWNER",
                            transactionData |-> mTx], mRules)]
  /\ mPhase' = "done"
  /\ UNCHANGED << mTx, mRules >>
  /\ UNCHANGED engineVars
  /\ UNCHANGED runnerVars

MatcherNext == Evaluate \/ Resolve

MatcherSpec == MatcherInit /\ [][MatcherNext]_vars

(***************************************************************************)
(* The engine over a store loaded from one validated rule file.            *)
(***************************************************************************)
\* keywords: ArrayMinSize(1), each a string
IngestKeywords == SeqsUpTo(KeywordTexts, MaxKeywords) \ {<< >>}

\* exclude_keywords: optional
IngestExcludes == {<< >>} \cup {<< k >> : k \in KeywordTexts}

\* amount_range: each bound optional and at least 0, min not above max
IngestRanges ==
  { r \in [min : AmountBounds, max : AmountBounds] :
      (IsSet(r.min) /\ IsSet(r.max)) => r.min[1] <= r.max[1] }

IngestFile(kws, excl, range) ==
  [companies |-> <<
     [company_id |-> "com_1",
      categories |-> <<
        CategoryRule("cat_1", "food", kws, excl, range.min, range.max,
                     "ALL", Null) >>] >>]

IngestFiles ==
  { IngestFile(kws, excl, [min |-> Null, max |-> Null]) :
      kws \in IngestKeywords, excl \in IngestExcludes }
  \cup
  { IngestFile(<< << "a" >> >>, << >>, range) : range \in IngestRanges }

IngestTransactions ==
  { Tx(d, 0, 5500) : d \in Descriptions }
  \cup
  { Tx(<< "a" >>, 0, w) : w \in Amounts }

\* the store holds one rule file; mTx is the transaction of the caller
IngestInit ==
  /\ \E rulesData \in IngestFiles :
       EngineOver(saveRulesToDatabase(EmptyDatabase, rulesData))
  /\ mPhase = "idle"
  /\ mTx \in IngestTransactions
  /\ mRules = << >>
  /\ mOut = [phase |-> "idle"]
  /\ RunnerIdle

IngestNext ==
  \/ \E c \in Callers :
       /\ Quiescent
       /\ ClassifyTransaction(c, [companyId |-> "com_1",
                                  userType |-> "BUSINESS_OWNER",
                                  transactionData |-> mTx])
       /\ UNCHANGED runnerVars
  \/ \E c \in Callers : StoreQuery(c) /\ UNCHANGED runnerVars
  \/ \E c \in Callers : FinishLookup(c) /\ UNCHANGED runnerVars

IngestSpec == IngestInit /\ [][IngestNext]_vars

(***************************************************************************)
(* Properties.                                                             *)
(***************************************************************************)
TenantKeys == {CompanyKey(c) : c \in Tenants}

LookedUp == last.op \in {"classified", "lookup"}

Classified == last.op = "classified"

\* the entry found by the last lookup was live: present, and now < expiresAt
FoundLive ==
  IsSet(last.lookup.entry) /\ last.lookup.at < last.lookup.entry[1].expiresAt

C2_StrictExpiry ==
  LookedUp =>
    /\ last.lookup.storeInvoked = ~FoundLive
    /\ Classified =>
         /\ last.call.fromCache = FoundLive
         /\ FoundLive => last.call.candidates = last.lookup.entry[1].rules
         /\ ~FoundLive =>
              CacheEntry(last.lookup.cacheKey) =
                << [rules |-> last.call.candidates,
                    expiresAt |-> last.lookup.at + CACHE_TTL] >>

C2_Witness ==
  /\ Classified
  /\ IsSet(last.lookup.entry)
  /\ last.lookup.at = last.lookup.entry[1].expiresAt
  /\ ~last.call.fromCache
  /\ cacheExpiry[last.lookup.cacheKey] = last.lookup.at + CACHE_TTL

\* C3: the first classification for a tenant after a rule file changed that
\* tenant's rules evaluates the rule set now in the Rule Store, never one
\* cached before the change.
C3_InvalidationOnRuleChange ==
  (Classified /\ last.call.afterChange) => last.call.current

\* C4: invalidateRulesCache(T) removes exactly T's entry and expiry and
\* leaves every other entry and expiry unchanged; clearAllCache leaves both
\* maps empty and every lookup that follows it invokes the Rule Store.
C4_InvalidationFrame ==
  [][/\ last'.op = "invalidate" =>
          LET k == CompanyKey(last'.companyId)
          IN  /\ DOMAIN rulesCache' = DOMAIN rulesCache \ {k}
              /\ DOMAIN cacheExpiry' = DOMAIN cacheExpiry \ {k}
              /\ \A j \in DOMAIN rulesCache' : rulesCache'[j] = rulesCache[j]
              /\ \A j \in DOMAIN cacheExpiry' : cacheExpiry'[j] = cacheExpiry[j]
     /\ last'.op = "clearAll" =>
          DOMAIN rulesCache' = {} /\ DOMAIN cacheExpiry' = {}
     /\ (last'.op \in {"classified", "lookup"}
           /\ last'.lookup.afterDrop = "clear") => last'.lookup.storeInvoked]_vars

C4_Witness ==
  /\ last.op = "invalidate"
  /\ last.hadEntry
  /\ CompanyKey(last.companyId) \notin DOMAIN rulesCache
  /\ \E j \in TenantKeys : j \in DOMAIN rulesCache /\ j \in DOMAIN cacheExpiry

\* C5: a classification for a non-privileged caller of tenant T evaluates
\* only rules owned by T, so a classified result names a rule of T.
C5_RuleSetScoping ==
  (Classified /\ last.call.context.userType # "ADMIN") =>
    /\ \A i \in 1..Len(last.call.candidates) :
         last.call.candidates[i].company_id = last.call.context.companyId
    /\ last.call.result.isClassified =>
         last.call.result.actualCompanyId = last.call.context.companyId

\* the rules of the candidate list that match every transaction of the
\* resolver harness
Matching == {i \in 1..Len(mRules) : mRules[i].transaction_type = "ALL"}

\* lower priority value first, then earlier position in the candidate list
Beats(i, j) ==
  \/ mRules[i].priority < mRules[j].priority
  \/ mRules[i].priority = mRules[j].priority /\ i <= j

\* C6: of the matching rules, the classifier selects one of minimum priority
\* value, and among those of minimum priority the first of the candidate list.
C6_PriorityResolution ==
  (mOut.phase = "resolved" /\ Matching # {}) =>
    /\ mOut.result.isClassified
    /\ \E i \in Matching :
         /\ \A j \in Matching : Beats(i, j)
         /\ mOut.result.ruleId = mRules[i].rule_id

C6_Witness ==
  /\ mOut.phase = "resolved"
  /\ Len(mRules) = 3
  /\ Matching = {1, 2, 3}
  /\ mRules[1].priority = 2
  /\ mRules[2].priority = 1
  /\ mRules[3].priority = 1
  /\ mOut.result.ruleId = 2

\* keyword k of the harness matches the harness description
KeywordFires(k) ==
  isKeywordMatch(trim(toLowerCase(mTx.description)), trim(toLowerCase(k.keyword)))

IncludeIdx == {i \in 1..Len(mRules[1].keywords) : IsInclude(mRules[1].keywords[i])}

ExcludeIdx == {i \in 1..Len(mRules[1].keywords) : IsExclude(mRules[1].keywords[i])}

\* C7: the keyword stage passes iff no EXCLUDE keyword matches and (there is
\* no INCLUDE keyword or some INCLUDE keyword matches).
C7_KeywordStage ==
  mOut.phase = "evaluated" =>
    mOut.keyword =
      (/\ \A i \in ExcludeIdx : ~KeywordFires(mRules[1].keywords[i])
       /\ \/ IncludeIdx = {}
          \/ \E i \in IncludeIdx : KeywordFires(mRules[1].keywords[i]))

C7_Witness ==
  /\ mOut.phase = "evaluated"
  /\ \E i \in IncludeIdx : KeywordFires(mRules[1].keywords[i])
  /\ \E i \in ExcludeIdx : KeywordFires(mRules[1].keywords[i])
  /\ ~mOut.keyword
  /\ ~mOut.matched

\* C8: ALL passes the type stage always; DEPOSIT passes iff depositAmount > 0
\* and withdrawalAmount = 0; WITHDRAWAL passes iff withdrawalAmount > 0 and
\* depositAmount = 0.
C8_TypeFilter ==
  mOut.phase = "evaluated" =>
    mOut.type =
      CASE mRules[1].transaction_type = "ALL" -> TRUE
        [] mRules[1].transaction_type = "DEPOSIT" ->
             mTx.depositAmount > 0 /\ mTx.withdrawalAmount = 0
        [] mRules[1].transaction_type = "WITHDRAWAL" ->
             mTx.withdrawalAmount > 0 /\ mTx.depositAmount = 0

C8_Witness ==
  /\ mOut.phase = "evaluated"
  /\ mRules[1].transaction_type = "DEPOSIT"
  /\ mTx.depositAmount > 0
  /\ mTx.withdrawalAmount > 0
  /\ ~mOut.type
  /\ ~mOut.matched

\* C9: with amount = max(depositAmount, withdrawalAmount) the amount stage
\* passes iff (minAmount is null or amount >= minAmount) and (maxAmount is
\* null or amount <= maxAmount).
C9_InclusiveBounds ==
  mOut.phase = "evaluated" =>
    LET amount == IF mTx.depositAmount >= mTx.withdrawalAmount
                  THEN mTx.depositAmount ELSE mTx.withdrawalAmount
        min == mRules[1].min_amount
        max == mRules[1].max_amount
    IN  mOut.amount =
          (/\ min = Null \/ amount >= min[1]
           /\ max = Null \/ amount <= max[1])

C9_Witness ==
  /\ mOut.phase = "evaluated"
  /\ mRules[1].min_amount = << 1000 >>
  /\ mRules[1].max_amount = << 50000 >>
  /\ mTx.withdrawalAmount = 50000
  /\ mTx.depositAmount = 0
  /\ mOut.amount

\* positions of the candidates of the last call that match its transaction
MatchingCandidates ==
  {i \in 1..Len(last.call.candidates) :
     evaluateRule(last.call.context.transactionData, last.call.candidates[i])}

\* C10: a call that raises no error returns exactly one of: unclassified "no
\* active rules" when the candidate list is empty; unclassified "No matching
\* rules found" when it is non-empty and no rule matches; otherwise classified
\* with the category, rule id and owning tenant of the rule the resolver chose.
C10_VerdictPartition ==
  Classified =>
    LET c == last.call
        r == c.result
        Chosen(i) ==
          /\ i \in MatchingCandidates
          /\ \A j \in MatchingCandidates :
               \/ c.candidates[i].priority < c.candidates[j].priority
               \/ c.candidates[i].priority = c.candidates[j].priority /\ i <= j
    IN  /\ Len(c.candidates) = 0 =>
             r = [isClassified |-> FALSE,
                  reason |-> IF c.context.userType = "ADMIN"
                             THEN "No active rules found for any company"
                             ELSE "No active rules found for company"]
        /\ (Len(c.candidates) > 0 /\ MatchingCandidates = {}) =>
             r = [isClassified |-> FALSE, reason |-> "No matching rules found"]
        /\ MatchingCandidates # {} =>
             /\ r.isClassified
             /\ \E i \in 1..Len(c.candidates) :
                  /\ Chosen(i)
                  /\ r.ruleId = c.candidates[i].rule_id
                  /\ r.categoryId = c.candidates[i].category_id
                  /\ r.categoryName =
                       IF IsSet(c.candidates[i].category)
                       THEN c.candidates[i].category[1].category_name
                       ELSE "undefined"
                  /\ r.actualCompanyId = c.candidates[i].company_id

C10_Witness ==
  /\ Classified
  /\ last.call.context.userType = "ADMIN"
  /\ Len(last.call.candidates) >= 2
  /\ Cardinality(MatchingCandidates) >= 2
  /\ last.call.result.isClassified
  /\ last.call.result.actualCompanyId = "com_1"

(***************************************************************************)
(* Properties of the batch runner.                                         *)
(***************************************************************************)
BatchDone == last.op = "batch"

\* the batch that returned evaluated transactions against loaded rules
BatchEvaluated == BatchDone /\ Len(last.transactions) > 0

\* evaluating the transaction against the rules reads the description of a
\* record that has none
ReadsMissingDescription(transaction, rules) ==
  /\ "description" \notin DOMAIN transaction
  /\ \E i \in 1..Len(rules) :
       /\ Len(rules[i].keywords) > 0
       /\ checkTransactionType(transaction, rules[i].transaction_type)
       /\ checkAmountRange(transaction, rules[i])

\* C11: no exception escapes classification: an error raised while loading
\* rules or evaluating the transaction inside classifyTransaction (a Rule Store
\* failure included) is returned as {isClassified: false, reason:
\* 'Classification error occurred'}; inside classifyTransactionsBatch an error
\* while evaluating transaction i yields that entry at position i and the
\* transactions after i are still processed.
C11_NoExceptionEscapes ==
  /\ last.op = "failed" => last.result = ClassificationError
  /\ (Classified /\ ReadsMissingDescription(last.call.context.transactionData,
                                            last.call.candidates))
       => last.call.result = ClassificationError
  /\ (BatchEvaluated /\ Len(last.rules) > 0) =>
       /\ Len(last.results) = Len(last.transactions)
       /\ \A i \in 1..Len(last.transactions) :
            IF ReadsMissingDescription(last.transactions[i], last.rules)
            THEN last.results[i] = ClassificationError
            ELSE last.results[i].reason \in
                   {"Successfully classified", "No matching rules found"}

C11_Witness ==
  /\ BatchEvaluated
  /\ Len(last.transactions) >= 2
  /\ last.results[1] = ClassificationError
  /\ last.results[2].isClassified

\* C13: classifyTransactionsBatch with an empty list returns an empty list
\* without any cache or Rule Store access; with n >= 1 transactions it makes
\* exactly one rule lookup (at most one Rule Store call) before the first
\* transaction is evaluated and evaluates all n transactions against that one
\* snapshot, even if the entry expires or is invalidated while the batch runs.
C13_BatchLoadsOnce ==
  /\ ~BatchIdle => Len(batch.transactions) > 0
  /\ BatchDone =>
       IF Len(last.transactions) = 0
       THEN last.lookups = << >> /\ last.results = << >>
       ELSE /\ Len(last.lookups) = 1
            /\ ~last.lookups[1].storeInvoked =>
                 /\ IsSet(last.lookups[1].entry)
                 /\ last.rules = last.lookups[1].entry[1].rules
            /\ Len(last.results) = Len(last.transactions)
            /\ \A i \in 1..Len(last.transactions) :
                 LET tx == last.transactions[i]
                     matched == IF ReadsMissingDescription(tx, last.rules)
                                THEN << >>
                                ELSE findMatchingRules(tx, last.rules)
                 IN  /\ last.results[i].isClassified = (Len(matched) > 0)
                     /\ last.results[i].isClassified =>
                          \E j \in 1..Len(matched) :
                            matched[j].rule_id = last.results[i].ruleId

C13_Witness ==
  /\ BatchEvaluated
  /\ last.companyId = "com_1"
  /\ Len(last.transactions) = 2
  /\ last.lookups[1].storeInvoked
  /\ dropped[CompanyKey("com_1")] = "invalidate"
  /\ now > last.lookups[1].at
  /\ last.results[1].isClassified
  /\ last.results[2].isClassified

\* C14: the rule set a batch loads up front follows the rule of classify: the
\* all-tenants set when the caller is privileged, the tenant's own set
\* otherwise, so a privileged batch can classify a transaction with a rule of
\* any tenant.
C14_BatchHonorsPrivilege ==
  (BatchEvaluated /\ last.lookups[1].storeInvoked) =>
    IF last.companyId = ADMIN_ALL_COMPANIES
    THEN last.rules \in getAllActiveRules(Database)
    ELSE last.rules \in getRulesByCompany(Database, last.companyId)

\* a field of a result, or Null when the result does not carry it
Field(r, f) == IF f \in DOMAIN r THEN << r[f] >> ELSE Null

VerdictFields ==
  {"isClassified", "categoryId", "categoryName", "ruleId", "matchedKeywords",
   "reason", "actualCompanyId"}

\* C15: for a non-empty list of n transactions and an unchanged rule set,
\* classifyTransactionsBatch(tenant, txs) returns n results in input order, and
\* result i is the verdict classifyTransaction returns for txs[i] with the same
\* tenant: same isClassified, categoryId, categoryName, ruleId,
\* matchedKeywords, reason and matched tenant (actualCompanyId).
C15_BatchEqualsSingles ==
  (BatchEvaluated /\ last.companyId # ADMIN_ALL_COMPANIES) =>
    /\ Len(last.results) = Len(last.transactions)
    /\ \A i \in 1..Len(last.transactions) :
         LET single == classifyCaught(
                         [companyId |-> last.companyId,
                          userType |-> "BUSINESS_OWNER",
                          transactionData |-> last.transactions[i]], last.rules)
         IN  \A f \in VerdictFields :
               Field(last.results[i], f) = Field(single, f)

(***************************************************************************)
(* Properties of repeated classification.                                  *)
(***************************************************************************)
ComparedFields ==
  {"isClassified", "categoryId", "ruleId", "matchedKeywords", "reason"}

\* C12: for a fixed rule set and a fixed transaction, any two runs of
\* classify with the same tenant and the same privilege flag return the same
\* verdict (isClassified, categoryId, ruleId, matchedKeywords, reason),
\* whatever lookups, invalidations and expiries the engine went through.
C12_Determinism ==
  Classified =>
    \A f \in ComparedFields :
      Field(last.call.result, f) = Field(verdicts[last.call.context], f)

(***************************************************************************)
(* Properties of generateClassificationStats.                              *)
(***************************************************************************)
StatsDone == last.op = "stats"

RECURSIVE SumOver(_, _)
SumOver(f, S) ==
  IF S = {} THEN 0
  ELSE LET x == CHOOSE y \in S : TRUE IN f[x] + SumOver(f, S \ {x})

\* the classified results of the list that carry category c
ClassifiedWith(results, c) ==
  {i \in 1..Len(results) :
     /\ results[i].isClassified
     /\ "categoryId" \in DOMAIN results[i]
     /\ results[i].categoryId = c}

CategoriesOf(results) ==
  {results[i].categoryId :
     i \in {j \in 1..Len(results) :
              results[j].isClassified /\ "categoryId" \in DOMAIN results[j]}}

CountsAgree(result) ==
  result.classifiedCount + result.unclassifiedCount = result.totalProcessed

\* C16: in the result of every classifyAndSaveTransactions run and of every
\* reclassifyUnclassifiedTransactions run that returns, in the running result
\* after every sub-batch of the save pipeline, and in the output of
\* generateClassificationStats, classifiedCount + unclassifiedCount equals
\* totalProcessed (totalCount), per-transaction errors included.
C16_CountConsistency ==
  /\ last.op \in {"saved", "group", "reclassified"} => CountsAgree(last.result)
  /\ last.op = "stats" =>
       last.stats.classifiedCount + last.stats.unclassifiedCount
         = last.stats.totalCount
  /\ last.op = "stats" => last.stats.totalCount = Len(last.results)
  /\ last.op \in {"saved", "group"} =>
       last.result.totalProcessed + Len(last.result.errors)
         = IF last.op = "saved" THEN Len(last.request.transactions)
           ELSE pipe.i - 1

\* a save run over several sub-batches returned counts of both kinds next to
\* per-transaction errors
C16_Witness ==
  /\ last.op = "saved"
  /\ last.result.totalProcessed > BATCH_SIZE
  /\ last.result.classifiedCount > 0
  /\ last.result.unclassifiedCount > 0
  /\ Len(last.result.errors) > 0

\* the number of consecutive groups of BATCH_SIZE n transactions split into
GroupsOf(n) == (n + BATCH_SIZE - 1) \div BATCH_SIZE

\* the input positions of group g of n transactions, in input order
GroupPositions(n, g) ==
  LET first == (g - 1) * BATCH_SIZE + 1
      end == IF g * BATCH_SIZE < n THEN g * BATCH_SIZE ELSE n
  IN  [j \in 1..(end - first + 1) |-> first + j - 1]

\* the positions of group g whose transaction did not raise
Persistable(transactions, g) ==
  SelectSeq(GroupPositions(Len(transactions), g),
            LAMBDA k : ~decryptThrows(transactions[k].description_encrypted))

\* the entities are those of the transactions at the positions, in order
EntitiesOf(entities, transactions, positions) ==
  /\ Len(entities) = Len(positions)
  /\ \A j \in 1..Len(entities) :
       /\ entities[j].transaction_date
            = transactions[positions[j]].transaction_date
       /\ entities[j].description_encrypted
            = transactions[positions[j]].description_encrypted

\* C18 as stated: a classifyAndSaveTransactions run that returns has issued
\* one persistence call per group of 100, in order, holding the entities of
\* that group.
C18_SubBatching_AsStated ==
  last.op = "saved" =>
    LET transactions == last.request.transactions
    IN  /\ Len(saveLog) = GroupsOf(Len(transactions))
        /\ \A g \in 1..Len(saveLog) :
             EntitiesOf(saveLog[g].entities, transactions,
                        Persistable(transactions, g))

\* C18, amended: a classifyAndSaveTransactions run that returns has issued,
\* in order, one persistence call for every group of 100 consecutive input
\* transactions in which at least one transaction did not raise, holding the
\* entities of the transactions of that group that did not raise, in input
\* order; when no transaction raised, n transactions gave ceil(n/100) calls
\* and totalProcessed = n.
C18_SubBatching ==
  last.op = "saved" =>
    LET transactions == last.request.transactions
        n == Len(transactions)
        saved == SelectSeq([g \in 1..GroupsOf(n) |-> g],
                           LAMBDA g : Len(Persistable(transactions, g)) > 0)
    IN  /\ Len(saveLog) = Len(saved)
        /\ \A j \in 1..Len(saveLog) :
             /\ saveLog[j].ok
             /\ Len(saveLog[j].entities) <= BATCH_SIZE
             /\ EntitiesOf(saveLog[j].entities, transactions,
                           Persistable(transactions, saved[j]))
        /\ last.result.errors = << >> =>
             /\ Len(saveLog) = GroupsOf(n)
             /\ last.result.totalProcessed = n

\* a run over full groups and a half group returned without an error: one
\* call per group, the last one of half a group
C18_Witness ==
  /\ last.op = "saved"
  /\ last.result.errors = << >>
  /\ Len(last.request.transactions)
       = (MaxGroups - 1) * BATCH_SIZE + BATCH_SIZE \div 2
  /\ Len(saveLog) = MaxGroups
  /\ Len(saveLog[1].entities) = BATCH_SIZE
  /\ Len(saveLog[MaxGroups].entities) = BATCH_SIZE \div 2
  /\ last.result.totalProcessed = Len(last.request.transactions)

\* a classifyAndSaveTransactions run is in progress
InSaveRun == pipe.pc # "idle" /\ pipe.op = "save"

\* the input positions before i whose transaction did not raise
PersistableBefore(transactions, i) ==
  SelectSeq([k \in 1..(i - 1) |-> k],
            LAMBDA k : ~decryptThrows(transactions[k].description_encrypted))

\* a persistence call of the save pipeline failed
SaveFailed ==
  \E j \in 1..Len(saveLog) : saveLog[j].op = "save" /\ ~saveLog[j].ok

\* the number of entities of the committed calls of the save pipeline
CommittedRows ==
  SumOver([j \in 1..Len(saveLog) |-> Len(saveLog[j].entities)],
          {j \in 1..Len(saveLog) : saveLog[j].op = "save" /\ saveLog[j].ok})

\* C19: when classifyAndSaveTransactions starts on a group, the entities of
\* every earlier group are saved, nothing is saved while the transactions of
\* the group are classified, and only a group without entities is left
\* without a persistence call; when the persistence call of a group fails
\* the call fails without counts, the table keeps exactly the earlier groups,
\* and afterwards nothing of the request is classified or saved.
C19_CheckpointedPersistence ==
  [][ /\ (InSaveRun' /\ pipe'.k = pipe'.i) =>
           EntitiesOf(transactionsTable', pipe'.request.transactions,
                      PersistableBefore(pipe'.request.transactions, pipe'.i))
      /\ (InSaveRun /\ InSaveRun' /\ pipe.pc # "saving") =>
           /\ pipe'.i # pipe.i => Len(pipe.entities) = 0
           /\ transactionsTable' = transactionsTable
           /\ saveLog' = saveLog
      /\ (saveLog' # saveLog /\ ~saveLog'[Len(saveLog')].ok
            /\ saveLog'[Len(saveLog')].op = "save") =>
           /\ last'.op = "saveThrew"
           /\ "result" \notin DOMAIN last'
           /\ pipe'.pc = "idle"
           /\ transactionsTable' = transactionsTable
           /\ EntitiesOf(transactionsTable', pipe.request.transactions,
                         PersistableBefore(pipe.request.transactions, pipe.i))
      /\ SaveFailed' =>
           /\ ~InSaveRun'
           /\ last'.op \notin {"saved", "group"}
           /\ Len(transactionsTable') = CommittedRows'
           /\ \A j \in 1..Len(saveLog') :
                (saveLog'[j].op = "save" /\ ~saveLog'[j].ok) =>
                  \A l \in (j + 1)..Len(saveLog') : saveLog'[l].op # "save"
    ]_vars

\* the persistence call of a later group failed: the earlier groups are in
\* the table and the request had a further group
C19_Witness ==
  /\ last.op = "saveThrew"
  /\ Len(saveLog) = 2
  /\ saveLog[1].ok
  /\ ~saveLog[2].ok
  /\ Len(transactionsTable) = Len(saveLog[1].entities)
  /\ Len(transactionsTable) > 0
  /\ Len(last.request.transactions) > 2 * BATCH_SIZE

\* company_id and category_id of an entity are both set or both null
BothOrNeither(entity) == (entity.company_id = Null) <=> (entity.category_id = Null)

\* the verdict classifyTransaction returned in the step just taken
ReturnedVerdict(event) ==
  IF event.op = "failed" THEN event.result ELSE event.call.result

\* C20: the entity processBatch builds for a verdict has company_id and
\* category_id set when the verdict is classified with a category, and both
\* null for every other verdict; every entity handed to persistence by the
\* save pipeline has both set or both null.
C20_UnambiguousAssignment ==
  [][ /\ (InSaveRun /\ InSaveRun' /\ pipe'.i = pipe.i
            /\ Len(pipe'.entities) = Len(pipe.entities) + 1) =>
           LET entity == pipe'.entities[Len(pipe'.entities)]
               verdict == ReturnedVerdict(last')
           IN  IF verdict.isClassified /\ "categoryId" \in DOMAIN verdict
               THEN /\ entity.company_id # Null
                    /\ entity.category_id = << verdict.categoryId >>
               ELSE /\ entity.company_id = Null
                    /\ entity.category_id = Null
      /\ (saveLog' # saveLog /\ saveLog'[Len(saveLog')].op = "save") =>
           \A j \in 1..Len(saveLog'[Len(saveLog')].entities) :
             BothOrNeither(saveLog'[Len(saveLog')].entities[j])
    ]_vars

\* a persistence call of the save pipeline held an assigned entity next to
\* an unassigned one
C20_Witness ==
  /\ Len(saveLog) > 0
  /\ saveLog[1].op = "save"
  /\ \E j \in 1..Len(saveLog[1].entities) :
       /\ saveLog[1].entities[j].company_id # Null
       /\ saveLog[1].entities[j].category_id # Null
  /\ \E j \in 1..Len(saveLog[1].entities) :
       /\ saveLog[1].entities[j].company_id = Null
       /\ saveLog[1].entities[j].category_id = Null

\* the tenant that owns the stored rule with the id
OwnerOfRule(ruleId) ==
  LET row == CHOOSE r \in Range(rulesTable) : r.rule_id = ruleId
  IN  row.company_id

\* C21: the entity a privileged (ADMIN) save run builds for a transaction
\* classified by a rule carries the tenant that owns that rule as company_id,
\* never the requested identifier; the entity of a non-privileged run carries
\* the requesting tenant.
C21_PrivilegedAttribution ==
  [][ (InSaveRun /\ InSaveRun' /\ pipe'.i = pipe.i
         /\ Len(pipe'.entities) = Len(pipe.entities) + 1
         /\ ReturnedVerdict(last').isClassified) =>
        LET entity == pipe'.entities[Len(pipe'.entities)]
            verdict == ReturnedVerdict(last')
        IN  /\ \E r \in Range(rulesTable) : r.rule_id = verdict.ruleId
            /\ IF pipe.request.userType = "ADMIN"
               THEN /\ entity.company_id = << OwnerOfRule(verdict.ruleId) >>
                    /\ entity.company_id # << pipe.request.companyId >>
               ELSE entity.company_id = << pipe.request.companyId >>
    ]_vars

\* a privileged run handed to persistence entities of two owning tenants
C21_Witness ==
  /\ Len(saveLog) > 0
  /\ saveLog[1].op = "save"
  /\ saveLog[1].ok
  /\ \E j \in 1..Len(saveLog[1].entities) :
       saveLog[1].entities[j].company_id = << "com_2" >>
  /\ \E j \in 1..Len(saveLog[1].entities) :
       saveLog[1].entities[j].company_id = << "com_1" >>
  /\ \E j \in 1..Len(transactionsTable) :
       transactionsTable[j].company_id = << "com_2" >>

\* the input positions whose transaction raises
Raising(transactions) ==
  {k \in 1..Len(transactions) :
     decryptThrows(transactions[k].description_encrypted)}

\* C22: when the processing of a transaction of the save pipeline throws, one
\* error string is appended, the transaction gives no entity and no count,
\* and the run goes on with the next transaction; a run that returns has
\* persisted every transaction that did not throw, with one error per
\* transaction that threw and totalProcessed + errors.length = n.
C22_ErrorsNeverAbort ==
  [][ /\ (InSaveRun /\ pipe.pc = "next" /\ pipe.k <= PipeLoopEnd(pipe)
            /\ decryptThrows(PipeCiphertext(pipe))) =>
           /\ InSaveRun'
           /\ pipe'.k = pipe.k + 1
           /\ pipe'.i = pipe.i
           /\ Len(pipe'.batchResult.errors) = Len(pipe.batchResult.errors) + 1
           /\ pipe'.entities = pipe.entities
           /\ pipe'.batchResult.totalProcessed = pipe.batchResult.totalProcessed
           /\ pipe'.batchResult.classifiedCount = pipe.batchResult.classifiedCount
           /\ pipe'.batchResult.unclassifiedCount
                = pipe.batchResult.unclassifiedCount
      /\ last'.op = "saved" =>
           LET transactions == last'.request.transactions
               n == Len(transactions)
           IN  /\ Len(last'.result.errors) = Cardinality(Raising(transactions))
               /\ last'.result.totalProcessed + Len(last'.result.errors) = n
               /\ EntitiesOf(transactionsTable', transactions,
                             PersistableBefore(transactions, n + 1))
    ]_vars

\* a run in which transactions of several groups threw returned, and the
\* transactions after them are in the table
C22_Witness ==
  /\ last.op = "saved"
  /\ Len(last.request.transactions) > 2 * BATCH_SIZE
  /\ \E k \in Raising(last.request.transactions) : k < BATCH_SIZE
  /\ \E k \in Raising(last.request.transactions) : k > 2 * BATCH_SIZE
  /\ Len(saveLog) = GroupsOf(Len(last.request.transactions))
  /\ Len(transactionsTable) + Len(last.result.errors)
       = Len(last.request.transactions)
  /\ transactionsTable[Len(transactionsTable)].transaction_date
       = Len(last.request.transactions)

\* the stored transaction is CLASSIFIED
IsClassifiedRow(row) == row.company_id # Null

\* the step committed a save of reclassifyUnclassifiedTransactions
ReclassifySaved ==
  /\ Len(saveLog') = Len(saveLog) + 1
  /\ saveLog'[Len(saveLog')].op = "reclassify"
  /\ saveLog'[Len(saveLog')].ok

\* C23: a stored transaction is UNCLASSIFIED (company_id null) or CLASSIFIED
\* (company_id and category_id set); only a save of
\* reclassifyUnclassifiedTransactions moves a stored transaction from
\* UNCLASSIFIED to CLASSIFIED; a CLASSIFIED transaction is never changed or
\* written again, and the rows a reclassification pass reads are UNCLASSIFIED.
C23_TransactionStateMachine ==
  [][ /\ Len(transactionsTable') >= Len(transactionsTable)
      /\ \A id \in DOMAIN transactionsTable' :
           BothOrNeither(transactionsTable'[id])
      /\ \A id \in DOMAIN transactionsTable :
           /\ IsClassifiedRow(transactionsTable[id]) =>
                /\ transactionsTable'[id] = transactionsTable[id]
                /\ ReclassifySaved =>
                     saveLog'[Len(saveLog')].entities[1].transaction_id # id
           /\ (~IsClassifiedRow(transactionsTable[id])
                 /\ IsClassifiedRow(transactionsTable'[id])) => ReclassifySaved
      /\ (pipe.pc = "finding" /\ pipe'.pc = "next") =>
           \A j \in 1..Len(pipe'.rows) : ~IsClassifiedRow(pipe'.rows[j])
    ]_vars

\* a reclassifyUnclassifiedTransactions call is in progress
InReclassify == pipe.pc # "idle" /\ pipe.op = "reclassify"

\* C24: reclassifyUnclassifiedTransactions(T, limit) examines at most limit
\* unassigned transactions, classifies each against the rules of tenant T
\* only, persists each newly classified one with company_id = T and the
\* matched category, leaves a transaction that still fails unassigned and
\* unwritten, and appends the error of one transaction (a failed save
\* included) without stopping the remaining transactions.
C24_ReclassificationPass ==
  [][ /\ (pipe.pc = "finding" /\ InReclassify' /\ pipe'.pc = "next") =>
           /\ Len(pipe'.rows) <= pipe.limit
           /\ \A j \in 1..Len(pipe'.rows) :
                /\ ~IsClassifiedRow(pipe'.rows[j])
                /\ transactionsTable[pipe'.rows[j].transaction_id] = pipe'.rows[j]
      /\ (InReclassify /\ last'.op = "classified") =>
           /\ last'.call.context.companyId = pipe.companyId
           /\ \A j \in 1..Len(last'.call.candidates) :
                last'.call.candidates[j].company_id = pipe.companyId
           /\ IF last'.call.result.isClassified
              THEN /\ pipe'.pc = "savingOne"
                   /\ pipe'.pending.transaction_id = pipe.rows[pipe.k].transaction_id
                   /\ pipe'.pending.company_id = << pipe.companyId >>
                   /\ pipe'.pending.category_id
                        = << last'.call.result.categoryId >>
              ELSE /\ pipe'.pc = "next"
                   /\ pipe'.k = pipe.k + 1
                   /\ pipe'.result.unclassifiedCount
                        = pipe.result.unclassifiedCount + 1
           /\ transactionsTable' = transactionsTable
           /\ saveLog' = saveLog
      /\ (InReclassify /\ pipe.pc = "savingOne" /\ pipe' # pipe) =>
           /\ InReclassify'
           /\ pipe'.pc = "next"
           /\ pipe'.k = pipe.k + 1
           /\ IF ReclassifySaved
              THEN /\ transactionsTable'
                        = [transactionsTable EXCEPT
                             ![pipe.pending.transaction_id] = pipe.pending]
                   /\ pipe'.result.classifiedCount
                        = pipe.result.classifiedCount + 1
                   /\ pipe'.result.errors = pipe.result.errors
              ELSE /\ transactionsTable' = transactionsTable
                   /\ Len(pipe'.result.errors) = Len(pipe.result.errors) + 1
                   /\ pipe'.result.totalProcessed = pipe.result.totalProcessed
      /\ (InReclassify /\ pipe.pc = "next" /\ pipe.k <= Len(pipe.rows)
            /\ decryptThrows(PipeCiphertext(pipe))) =>
           /\ InReclassify'
           /\ pipe'.k = pipe.k + 1
           /\ Len(pipe'.result.errors) = Len(pipe.result.errors) + 1
           /\ transactionsTable' = transactionsTable
      /\ last'.op = "reclassified" =>
           /\ last'.result.totalProcessed + Len(last'.result.errors)
                = Len(last'.rows)
           /\ Len(last'.rows) <= pipe.limit
    ]_vars

\* the step completed a store fetch for the cache key
FetchCompleted(k) ==
  \/ \E c \in DOMAIN calls :
       /\ calls[c].pc = "fetched"
       /\ calls'[c].pc = "idle"
       /\ calls[c].cacheKey = k
  \/ /\ batch.pc = "fetched"
     /\ batch'.pc = "idle"
     /\ batch.cacheKey = k

\* C25: when batches and classify calls of two tenants interleave, each call
\* uses the rules of its own tenant and returns what it returns when run
\* alone, and the cache entry of a tenant changes only when a fetch for that
\* tenant completes, to rules of that tenant.
C25_ConcurrentIndependence ==
  [][ /\ last'.op = "classified" =>
           LET call == last'.call
               own == getRulesByCompany(Database, call.context.companyId)
           IN  /\ \A j \in 1..Len(call.candidates) :
                    call.candidates[j].company_id = call.context.companyId
               /\ call.candidates \in own
               /\ call.result
                    \in {classifyWithRules(call.context, rules) : rules \in own}
      /\ (last'.op = "batch" /\ Len(last'.transactions) > 0) =>
           LET own == getRulesByCompany(Database, last'.companyId)
           IN  /\ \A j \in 1..Len(last'.rules) :
                    last'.rules[j].company_id = last'.companyId
               /\ last'.rules \in own
               /\ last'.results
                    \in {classifyBatchWithRules(last'.transactions, rules) :
                           rules \in own}
      /\ \A T \in Tenants :
           CacheEntry(CompanyKey(T))' # CacheEntry(CompanyKey(T)) =>
             /\ FetchCompleted(CompanyKey(T))
             /\ \A j \in 1..Len(rulesCache'[CompanyKey(T)]) :
                  rulesCache'[CompanyKey(T)][j].company_id = T
    ]_vars

\* a call of all_companies returned from the store while a call of com_1 and
\* a batch were in flight, and both tenants have their entry
C25_Witness ==
  /\ last.op = "classified"
  /\ last.call.context.companyId = "all_companies"
  /\ ~last.call.fromCache
  /\ last.call.result.isClassified
  /\ calls[1].pc = "fetched"
  /\ batch.pc # "idle"
  /\ CompanyKey("com_1") \in DOMAIN rulesCache
  /\ CompanyKey("all_companies") \in DOMAIN rulesCache

\* C26: after invalidateRulesCache(T), and until the next lookup of T's key
\* begins, the cache holds no entry for T: the rules of a fetch that was
\* awaited when the invalidation ran are not installed after it.
C26_InvalidateNotLost ==
  \A T \in Tenants :
    dropped[CompanyKey(T)] = "invalidate" =>
      CompanyKey(T) \notin DOMAIN rulesCache

\* the rules of one tenant within a rule list
RulesOwnedBy(rules, companyId) ==
  { rules[i] : i \in { j \in 1..Len(rules) : rules[j].company_id = companyId } }

\* C27: when invalidateRulesCache(T) follows a change of T's rules, a
\* privileged classification issued next is not served T's rules of before
\* the change: the all-tenants entry, if it is still live, holds no rule of
\* T that the Rule Store no longer has.
C27_InvalidationReachesPrivileged ==
  ( /\ last.op = "invalidate"
    /\ last.companyId \in rulesChanged
    /\ CacheHit(AllCompaniesKey, now) )
  => \A rules \in getAllActiveRules(Database) :
       RulesOwnedBy(rulesCache[AllCompaniesKey], last.companyId)
         \subseteq RulesOwnedBy(rules, last.companyId)

\* the awaited fetch of caller c resolves in this step
Resolves(c) == calls[c].pc = "fetched" /\ calls'[c].pc = "idle"

\* a classification is served from the cache in this step
ServedFromCache ==
  /\ calls' = calls
  /\ last'.op = "classified"
  /\ last'.call.fromCache
  /\ last'.lookup.at = now

\* the rule set handed back by the lookup that fetched it was read less than
\* the TTL before
FetchedWithinTTL ==
  \A c \in Callers : Resolves(c) => now - calls[c].readAt < CACHE_TTL

\* an entry expires at most TTL after the read of its rules, and is served
\* only before it expires
ExpiryBoundsAge ==
  /\ \A c \in Callers :
       Resolves(c) =>
         /\ cacheExpiry'[calls[c].cacheKey] = calls[c].now + CACHE_TTL
         /\ calls[c].now <= calls[c].readAt
         /\ cacheExpiry'[calls[c].cacheKey] <= calls[c].readAt + CACHE_TTL
  /\ ServedFromCache =>
       /\ IsSet(last'.lookup.entry)
       /\ last'.call.candidates = last'.lookup.entry[1].rules
       /\ now < last'.lookup.entry[1].expiresAt

\* C28 as stated: without invalidation, every rule set a lookup returns, from
\* the cache or from the fetch it awaited, was read from the Rule Store less
\* than the TTL before the moment it is returned; the expiry of an entry is
\* counted from the start of the lookup.
C28_BoundedStaleness_AsStated ==
  [][FetchedWithinTTL /\ ExpiryBoundsAge]_vars

\* C28: without invalidation, every rule set returned from the cache was
\* read from the Rule Store less than the TTL before the moment it is
\* returned: the expiry of an entry is counted from the start of the lookup,
\* which is not later than the read, and an entry is served only before its
\* expiry.
C28_BoundedStaleness == [][ExpiryBoundsAge]_vars

\* a cached rule set is served in the last millisecond of its life
C28_Witness ==
  /\ Classified
  /\ last.call.fromCache
  /\ last.lookup.at > 0
  /\ last.lookup.at + 1 = last.lookup.entry[1].expiresAt

\* the rule a classification selected
SelectedRule ==
  CHOOSE r \in Range(last.call.candidates) : r.rule_id = last.call.result.ruleId

\* the keyword test of the matcher on one keyword row
MatcherAccepts(transactionData, k) ==
  isKeywordMatch(trim(toLowerCase(transactionData.description)),
                 trim(toLowerCase(k.keyword)))

\* C29: when a transaction is classified by a rule that has an INCLUDE
\* keyword, matchedKeywords is not empty and lists, in order, exactly the
\* INCLUDE keywords of the rule that the keyword test of the matcher
\* accepts; no EXCLUDE keyword of the rule is in it.
C29_MatchedKeywordsAgree ==
  (Classified /\ last.call.result.isClassified) =>
    LET rule == SelectedRule
        transactionData == last.call.context.transactionData
        includeKeywords == SelectSeq(rule.keywords, IsInclude)
        excludeKeywords == SelectSeq(rule.keywords, IsExclude)
        Accepted(k) == MatcherAccepts(transactionData, k)
        accepted == SelectSeq(includeKeywords, Accepted)
        matchedKeywords == last.call.result.matchedKeywords
    IN  Len(includeKeywords) > 0 =>
          /\ Len(matchedKeywords) > 0
          /\ matchedKeywords = [i \in 1..Len(accepted) |-> accepted[i].keyword]
          /\ \A i \in 1..Len(matchedKeywords) :
               \A j \in 1..Len(excludeKeywords) :
                 matchedKeywords[i] # excludeKeywords[j].keyword

\* a description with blanks around it is classified by a rule of which one
\* INCLUDE keyword appears and another does not
C29_Witness ==
  /\ Classified
  /\ last.call.result.isClassified
  /\ Len(SelectSeq(SelectedRule.keywords, IsInclude)) = 2
  /\ Len(last.call.result.matchedKeywords) = 1
  /\ last.call.context.transactionData.description
       # trim(last.call.context.transactionData.description)

\* the bound m admits the amount from below, the bound M from above
AtLeast(bound, amount) == IsSet(bound) => bound[1] <= amount

AtMost(bound, amount) == IsSet(bound) => amount <= bound[1]

\* C30: once a rule file with amount_range {min: m, max: M} is ingested, the
\* stored rule has min_amount = m and max_amount = M, zero included, a bound
\* being null only when the file leaves it out, and a transaction is
\* classified by the rule only if its amount lies between m and M.
C30_IngestedBoundsEnforced ==
  Classified =>
    \A rulesData \in IngestFiles :
      Database = saveRulesToDatabase(EmptyDatabase, rulesData) =>
        LET given == rulesData.companies[1].categories[1].amount_range
            rule == rulesTable[1]
            transactionData == last.call.context.transactionData
            amount == IF transactionData.depositAmount
                           > transactionData.withdrawalAmount
                      THEN transactionData.depositAmount
                      ELSE transactionData.withdrawalAmount
        IN  /\ last.call.result.isClassified =>
                 AtLeast(given.min, amount) /\ AtMost(given.max, amount)
            /\ rule.min_amount = given.min
            /\ rule.max_amount = given.max

====
